---- MODULE Spec2Model ----
(***************************************************************************)
(* A model of the evaluation engine of the Lisp interpreter: the value     *)
(* heap, the scope (a cons chain of association lists that lives on the    *)
(* heap), the evaluator with its special-form dispatch, and the built-ins  *)
(* of std.cpp.                                                             *)
(*                                                                         *)
(* Memory is a sequence of objects; an Expr is the index of its object     *)
(* (its address), or VOID.  Every function of the source that takes a      *)
(* Gc* takes the machine record m here and returns the new one:            *)
(*   m.mem       the allocated Atom and Cons objects                       *)
(*   m.exprs     the table of the collector (Gc::exprs, Gc::size entries)  *)
(*   m.capacity  Gc::capacity                                              *)
(*   m.log       a history of the evaluation steps of the current form     *)
(***************************************************************************)
EXTENDS Integers, Sequences, FiniteSets, TLC

\* ------------------------------------------------------------------ bounds
\* number of top-level forms evaluated in one run
MaxForms == 2

\* number of collections in one run
MaxCollections == 1

\* ------------------------------------------------------- program constants
GC_INITIAL_CAPACITY == 256

VOID == 0

\* sizeof(long int), the type of Atom::num
LONG_BYTES == 8

\* ------------------------------------------------------------ long integers
\* A long int is the sequence of its bytes, lowest first, in two's
\* complement; Bytes(n, k) is the k-byte pattern of the integer n
RECURSIVE Bytes(_, _)
Bytes(n, k) == IF k = 0 THEN <<>> ELSE <<n % 256>> \o Bytes(n \div 256, k - 1)

ToLong(n) == Bytes(n, LONG_BYTES)

Negative(l) == l[Len(l)] >= 128

\* the same integer on k bytes, k >= Len(l)
Extend(l, k) == l \o [i \in 1..(k - Len(l)) |-> IF Negative(l) THEN 255 ELSE 0]

RECURSIVE add_bytes(_, _, _, _)
add_bytes(a, b, i, carry) ==
    IF i > Len(a) THEN <<>>
    ELSE <<(a[i] + b[i] + carry) % 256>>
            \o add_bytes(a, b, i + 1, (a[i] + b[i] + carry) \div 256)

\* a + b on Len(a) bytes: what the addition of the machine leaves when the
\* sum does not fit
long_add(a, b) == add_bytes(a, b, 1, 0)

RECURSIVE Column(_, _, _, _)
Column(a, b, k, i) ==
    IF i > k THEN 0 ELSE a[i] * b[k + 1 - i] + Column(a, b, k, i + 1)

RECURSIVE mul_bytes(_, _, _, _)
mul_bytes(a, b, k, carry) ==
    IF k > Len(a) THEN <<>>
    ELSE <<(Column(a, b, k, 1) + carry) % 256>>
            \o mul_bytes(a, b, k + 1, (Column(a, b, k, 1) + carry) \div 256)

\* a * b on Len(a) bytes
long_mul(a, b) == mul_bytes(a, b, 1, 0)

RECURSIVE below(_, _, _)
below(a, b, i) ==
    CASE i = 0 -> FALSE
      [] a[i] # b[i] -> a[i] < b[i]
      [] OTHER -> below(a, b, i - 1)

\* a < b, signed
long_less(a, b) ==
    IF Negative(a) # Negative(b) THEN Negative(a) ELSE below(a, b, Len(a))

\* (float)num: exact where the integer has at most 24 bits; the nearest
\* float of a larger one is kept as a term
Small(l) == \A i \in 4..Len(l) : l[i] = (IF Negative(l) THEN 255 ELSE 0)

FloatOf(l) ==
    IF Small(l)
    THEN l[1] + 256 * l[2] + 65536 * l[3] - (IF Negative(l) THEN 16777216 ELSE 0)
    ELSE [nearest_float |-> l]

\* --------------------------------------------------------------- objects
Sym(s) == [type |-> "ATOM_SYMBOL", sym |-> s]
Num(n) == [type |-> "ATOM_INTEGER", num |-> ToLong(n)]
Long(l) == [type |-> "ATOM_INTEGER", num |-> l]
Flt(r) == [type |-> "ATOM_REAL", real |-> r]
Str(s) == [type |-> "ATOM_STRING", str |-> s]
Native(f) == [type |-> "ATOM_NATIVE", fun |-> f]
Lambda(a, b, e) == [type |-> "ATOM_LAMBDA", args_list |-> a, body |-> b, envir |-> e]
Cons(a, d) == [type |-> "CONS", car |-> a, cdr |-> d]

\* descriptions of structures still to be allocated: a leaf is an atom
\* object or a reference to an existing Expr
Ref(h) == [type |-> "REF", h |-> h]
Pair(a, d) == [type |-> "PAIR", car |-> a, cdr |-> d]

RECURSIVE LIST(_)
LIST(s) == IF Len(s) = 0 THEN Sym("nil") ELSE Pair(Head(s), LIST(Tail(s)))

\* ---------------------------------------------------------------- the heap
\* x is computed first (a record: a result or a fresh object), then the code
\* goes on with it
With(x, F(_)) == CASE DOMAIN x # {} -> F(x)

gc_add_expr(m, expr) ==
    LET grown == IF Len(m.exprs) >= m.capacity
                 THEN [m EXCEPT !.capacity = 2 * @]
                 ELSE m
    IN [grown EXCEPT !.exprs = Append(@, expr)]

Alloc(m, obj) ==
    LET h == Len(m.mem) + 1
    IN [m |-> gc_add_expr([m EXCEPT !.mem = Append(@, obj)], h), e |-> h]

create_cons(m, car, cdr) == Alloc(m, Cons(car, cdr))

RECURSIVE Build(_, _)
Build(m, t) ==
    CASE t.type = "REF" -> [m |-> m, e |-> t.h]
      [] t.type = "PAIR" ->
            With(Build(m, t.car), LAMBDA a :
            With(Build(a.m, t.cdr), LAMBDA d :
            create_cons(d.m, a.e, d.e)))
      [] OTHER -> Alloc(m, t)

\* list(gc, format, ...): a proper list of the given elements
list(m, elems) == Build(m, LIST(elems))

\* new Cons{...}, new Atom{...}: an object on the free store that no
\* gc_add_expr has entered in the table
New(m, obj) == [m |-> [m EXCEPT !.mem = Append(@, obj)], e |-> Len(m.mem) + 1]

\* the atom that list_rec makes of one argument
ListItem(c, p) ==
    CASE c = "d" -> Num(p)
      [] c = "s" -> Str(p)
      [] c = "q" -> Sym(p)
      [] c = "e" -> [type |-> "ATOM_ATOM", atom |-> p]

\* the loop over the format: head is the first cell, tail the last one
RECURSIVE list_rec_loop(_, _, _, _, _)
list_rec_loop(m, format, args, head, tail) ==
    IF format = <<>>
    THEN [m |-> m, e |-> head]
    ELSE With(New(m, ListItem(Head(format), Head(args))), LAMBDA atom :
         With(New(atom.m, Cons(atom.e, VOID)), LAMBDA cell :
         list_rec_loop(IF tail = VOID THEN cell.m
                       ELSE [cell.m EXCEPT !.mem[tail].cdr = cell.e],
                       Tail(format), Tail(args),
                       IF tail = VOID THEN cell.e ELSE head, cell.e)))

list_rec(m, format, args) == list_rec_loop(m, format, args, VOID, VOID)

\* list(format, ...): the cells of list_rec as an Expr
list_of_format(m, format, args) == list_rec(m, format, args)

create_gc ==
    [mem |-> <<>>, exprs |-> <<>>, capacity |-> GC_INITIAL_CAPACITY, log |-> <<>>]

\* ------------------------------------------------------------- predicates
cons_p(mem, e) == e # VOID /\ mem[e].type = "CONS"
atom_p(mem, e) == e # VOID /\ mem[e].type # "CONS"
symbol_p(mem, e) == e # VOID /\ mem[e].type = "ATOM_SYMBOL"
integer_p(mem, e) == e # VOID /\ mem[e].type = "ATOM_INTEGER"
real_p(mem, e) == e # VOID /\ mem[e].type = "ATOM_REAL"
string_p(mem, e) == e # VOID /\ mem[e].type = "ATOM_STRING"
lambda_p(mem, e) == e # VOID /\ mem[e].type = "ATOM_LAMBDA"
native_p(mem, e) == e # VOID /\ mem[e].type = "ATOM_NATIVE"
nil_p(mem, e) == symbol_p(mem, e) /\ mem[e].sym = "nil"

RECURSIVE list_p(_, _)
list_p(mem, e) ==
    IF nil_p(mem, e) THEN TRUE
    ELSE IF cons_p(mem, e) THEN list_p(mem, mem[e].cdr)
    ELSE FALSE

RECURSIVE list_of_symbols_p(_, _)
list_of_symbols_p(mem, e) ==
    IF nil_p(mem, e) THEN TRUE
    ELSE IF cons_p(mem, e) /\ symbol_p(mem, mem[e].car)
    THEN list_of_symbols_p(mem, mem[e].cdr)
    ELSE FALSE

RECURSIVE length_of_list(_, _)
length_of_list(mem, e) ==
    IF nil_p(mem, e) THEN 0 ELSE 1 + length_of_list(mem, mem[e].cdr)

equal_atoms(mem, a, b) ==
    IF mem[a].type # mem[b].type THEN FALSE
    ELSE CASE mem[a].type = "ATOM_SYMBOL" -> mem[a].sym = mem[b].sym
           [] mem[a].type = "ATOM_INTEGER" -> mem[a].num = mem[b].num
           [] mem[a].type = "ATOM_REAL" -> mem[a].real = mem[b].real
           [] mem[a].type = "ATOM_STRING" -> mem[a].str = mem[b].str
           [] mem[a].type = "ATOM_LAMBDA" -> a = b
           [] mem[a].type = "ATOM_NATIVE" -> mem[a].fun = mem[b].fun
           [] OTHER -> FALSE

RECURSIVE equal(_, _, _)
equal(mem, a, b) ==
    IF a = VOID \/ b = VOID THEN a = b
    ELSE IF cons_p(mem, a) # cons_p(mem, b) THEN FALSE
    ELSE IF cons_p(mem, a)
    THEN equal(mem, mem[a].car, mem[b].car) /\ equal(mem, mem[a].cdr, mem[b].cdr)
    ELSE equal_atoms(mem, a, b)

\* ------------------------------------------------------------------ scope
RECURSIVE assoc(_, _, _)
assoc(mem, key, alist) ==
    CASE ~cons_p(mem, alist) -> alist
      [] cons_p(mem, mem[alist].car) /\ equal(mem, mem[mem[alist].car].car, key) ->
            mem[alist].car
      [] OTHER -> assoc(mem, key, mem[alist].cdr)

RECURSIVE get_scope_value_impl(_, _, _)
\* variant: the outermost binding wins
get_scope_value_outermost(mem, scope, name) ==
    IF cons_p(mem, scope)
    THEN LET value == get_scope_value_impl(mem, mem[scope].cdr, name)
         IN IF nil_p(mem, value)
            THEN assoc(mem, name, mem[scope].car)
            ELSE value
    ELSE scope

get_scope_value_impl(mem, scope, name) ==
    IF cons_p(mem, scope)
    THEN LET value == assoc(mem, name, mem[scope].car)
         IN IF nil_p(mem, value)
            THEN get_scope_value_impl(mem, mem[scope].cdr, name)
            ELSE value
    ELSE scope

get_scope_value(mem, scope, name) == get_scope_value_impl(mem, scope, name)

RECURSIVE set_scope_value_impl(_, _, _, _)
\* variant: a new binding of the global scope goes into a new frame cell
set_scope_value_impl_in_new_cell(m, scope, name, value) ==
    IF cons_p(m.mem, scope)
    THEN LET value_cell == assoc(m.mem, name, m.mem[scope].car)
         IN IF ~nil_p(m.mem, value_cell)
            THEN [m |-> [m EXCEPT !.mem[value_cell].cdr = value], e |-> scope]
            ELSE IF nil_p(m.mem, m.mem[scope].cdr)
            THEN Build(m, Pair(Pair(Pair(Ref(name), Ref(value)),
                                    Ref(m.mem[scope].car)),
                               Ref(m.mem[scope].cdr)))
            ELSE [m |-> set_scope_value_impl(m, m.mem[scope].cdr, name, value).m,
                  e |-> scope]
    ELSE Build(m, Pair(Pair(Pair(Ref(name), Ref(value)), Sym("nil")), Ref(scope)))

set_scope_value_impl(m, scope, name, value) ==
    IF cons_p(m.mem, scope)
    THEN LET value_cell == assoc(m.mem, name, m.mem[scope].car)
         IN IF ~nil_p(m.mem, value_cell)
            THEN [m |-> [m EXCEPT !.mem[value_cell].cdr = value], e |-> scope]
            ELSE IF nil_p(m.mem, m.mem[scope].cdr)
            THEN LET b == Build(m, Pair(Pair(Ref(name), Ref(value)),
                                        Ref(m.mem[scope].car)))
                 IN [m |-> [b.m EXCEPT !.mem[scope].car = b.e], e |-> scope]
            ELSE [m |-> set_scope_value_impl(m, m.mem[scope].cdr, name, value).m,
                  e |-> scope]
    ELSE Build(m, Pair(Pair(Pair(Ref(name), Ref(value)), Sym("nil")), Ref(scope)))

create_scope(m) == Build(m, Pair(Sym("nil"), Sym("nil")))

set_scope_value(m, scope, name, value) == set_scope_value_impl(m, scope, name, value)

RECURSIVE push_frame_loop(_, _, _, _)
push_frame_loop(m, frame, vars, args) ==
    IF ~nil_p(m.mem, vars) /\ ~nil_p(m.mem, args)
    THEN LET b == Build(m, Pair(Pair(Ref(m.mem[vars].car), Ref(m.mem[args].car)),
                                Ref(frame)))
         IN push_frame_loop(b.m, b.e, m.mem[vars].cdr, m.mem[args].cdr)
    ELSE [m |-> m, e |-> frame]

push_scope_frame(m, scope, vars, args) ==
    LET nil == Alloc(m, Sym("nil"))
        fr == push_frame_loop(nil.m, nil.e, vars, args)
    IN create_cons(fr.m, fr.e, scope)

\* ------------------------------------------------------- special forms
\* byte order of the symbol payloads that occur (std::string operator<)
ByteOrder ==
    <<"*", "+", ">", "a", "append", "assoc", "b", "begin", "car", "defun",
      "equal", "f", "fact", "g", "get-x", "h", "lambda", "list", "load", "n",
      "nil", "quasiquote", "quote", "set", "t", "unquote", "v", "w", "when",
      "x", "y", "z", "zzz", "λ">>

Rank(s) == CHOOSE i \in 1..Len(ByteOrder) : ByteOrder[i] = s

StrLess(a, b) == Rank(a) < Rank(b)

specials ==
    <<"set", "quote", "begin",
      "defun", "lambda", "λ",
      "when", "quasiquote">>

\* std::lower_bound over specials[first+1 .. first+len]
RECURSIVE lower_bound(_, _, _)
lower_bound(first, len, name) ==
    IF len > 0
    THEN LET half == len \div 2
             middle == first + half
         IN IF StrLess(specials[middle + 1], name)
            THEN lower_bound(middle + 1, len - half - 1, name)
            ELSE lower_bound(first, half, name)
    ELSE first

\* std::binary_search(specials.begin(), specials.end(), name)
binary_search(name) ==
    LET first == lower_bound(0, Len(specials), name)
    IN first # Len(specials) /\ ~StrLess(name, specials[first + 1])

\* variant: unquote counts as a special form too
is_special_or_unquote(name) == binary_search(name) \/ name = "unquote"

is_special(name) == binary_search(name)

\* ---------------------------------------------------------------- results
eval_success(m, scope, expr) ==
    [is_error |-> FALSE, expr |-> expr, m |-> m, scope |-> scope]

eval_failure(m, scope, error) ==
    [is_error |-> TRUE, expr |-> error, m |-> m, scope |-> scope]

FailWith(m, scope, t) ==
    LET b == Build(m, t) IN eval_failure(b.m, scope, b.e)

OkWith(m, scope, t) ==
    LET b == Build(m, t) IN eval_success(b.m, scope, b.e)

wrong_argument_type(m, scope, type, obj) ==
    FailWith(m, scope, LIST(<<Sym("wrong-argument-type"), Sym(type), Ref(obj)>>))

wrong_integer_of_arguments(m, scope, count) ==
    FailWith(m, scope, Pair(Sym("wrong-integer-of-arguments"), Num(count)))

\* ------------------------------------------------------- history (ghost)
RECURSIVE FrameView(_, _)
FrameView(mem, alist) ==
    IF cons_p(mem, alist)
    THEN (IF cons_p(mem, mem[alist].car) /\ symbol_p(mem, mem[mem[alist].car].car)
          THEN <<[name |-> mem[mem[mem[alist].car].car].sym,
                  value |-> mem[mem[alist].car].cdr,
                  cell |-> mem[alist].car]>>
          ELSE <<>>) \o FrameView(mem, mem[alist].cdr)
    ELSE <<>>

RECURSIVE ScopeView(_, _)
ScopeView(mem, scope) ==
    IF cons_p(mem, scope)
    THEN <<FrameView(mem, mem[scope].car)>> \o ScopeView(mem, mem[scope].cdr)
    ELSE <<>>

Logged(m, event) == [m EXCEPT !.log = Append(@, event)]

\* ------------------------------------------------------------- match_list
MatchResult(r, out) ==
    [is_error |-> r.is_error, expr |-> r.expr, m |-> r.m, scope |-> r.scope,
     out |-> out]

Plain(r) ==
    [is_error |-> r.is_error, expr |-> r.expr, m |-> r.m, scope |-> r.scope]

match_end(m, scope, format, xs, out) ==
    LET star == Len(format) # 0 /\ Head(format) = "*" /\ nil_p(m.mem, xs)
        nil1 == Alloc(m, Sym("nil"))
        m1 == IF star THEN nil1.m ELSE m
        format1 == IF star THEN Tail(format) ELSE format
        out1 == IF star THEN Append(out, nil1.e) ELSE out
    IN IF Len(format1) # 0 \/ ~nil_p(m1.mem, xs)
       THEN MatchResult(wrong_integer_of_arguments(m1, scope, 0), out1)
       ELSE MatchResult(OkWith(m1, scope, Sym("nil")), out1)

RECURSIVE match_loop(_, _, _, _, _)
match_loop(m, scope, format, xs, out) ==
    IF Len(format) # 0 /\ ~nil_p(m.mem, xs)
    THEN IF ~cons_p(m.mem, xs)
         THEN MatchResult(wrong_argument_type(m, scope, "consp", xs), out)
         ELSE LET x == m.mem[xs].car
                  c == Head(format)
                  next == m.mem[xs].cdr
              IN CASE c = "d" ->
                        IF ~integer_p(m.mem, x)
                        THEN MatchResult(wrong_argument_type(m, scope, "integerp", x), out)
                        ELSE match_loop(m, scope, Tail(format), next,
                                        Append(out, m.mem[x].num))
                   [] c = "f" ->
                        IF ~real_p(m.mem, x)
                        THEN MatchResult(wrong_argument_type(m, scope, "realp", x), out)
                        ELSE match_loop(m, scope, Tail(format), next,
                                        Append(out, m.mem[x].real))
                   [] c = "s" ->
                        IF ~string_p(m.mem, x)
                        THEN MatchResult(wrong_argument_type(m, scope, "stringp", x), out)
                        ELSE match_loop(m, scope, Tail(format), next,
                                        Append(out, m.mem[x].str))
                   [] c = "q" ->
                        IF ~symbol_p(m.mem, x)
                        THEN MatchResult(wrong_argument_type(m, scope, "symbolp", x), out)
                        ELSE match_loop(m, scope, Tail(format), next,
                                        Append(out, m.mem[x].sym))
                   [] c = "e" ->
                        match_loop(m, scope, Tail(format), next, Append(out, x))
                   [] c = "*" ->
                        LET nil == Alloc(m, Sym("nil"))
                        IN match_loop(nil.m, scope, Tail(format), nil.e,
                                      Append(out, xs))
    ELSE match_end(m, scope, format, xs, out)

\* history: what the outputs of the caller hold when match_list returns, one
\* for each character of the format that was reached
match_list(m, scope, format, xs) ==
    With(match_loop(m, scope, format, xs, <<>>), LAMBDA r :
    [r EXCEPT !.m = Logged(@, [ev |-> "match", format |-> format,
                               is_error |-> r.is_error, out |-> r.out])])

\* the older match_list (src/interpreter.cpp): it counts the elements it
\* passed for the error, and has no case for f.  An f takes no pointer from
\* the argument list and tests nothing, so the stores that follow it go
\* through the pointers of the characters before them: out holds what was
\* stored in the order of the pointers
match_end_without_reals(m, scope, format, xs, out, i) ==
    LET star == Len(format) # 0 /\ Head(format) = "*" /\ nil_p(m.mem, xs)
        nil1 == Alloc(m, Sym("nil"))
        m1 == IF star THEN nil1.m ELSE m
        format1 == IF star THEN Tail(format) ELSE format
        out1 == IF star THEN Append(out, nil1.e) ELSE out
    IN IF Len(format1) # 0 \/ ~nil_p(m1.mem, xs)
       THEN MatchResult(wrong_integer_of_arguments(m1, scope, i), out1)
       ELSE MatchResult(OkWith(m1, scope, Sym("nil")), out1)

RECURSIVE match_loop_without_reals(_, _, _, _, _, _)
match_loop_without_reals(m, scope, format, xs, out, i) ==
    IF Len(format) # 0 /\ ~nil_p(m.mem, xs)
    THEN IF ~cons_p(m.mem, xs)
         THEN MatchResult(wrong_argument_type(m, scope, "consp", xs), out)
         ELSE LET x == m.mem[xs].car
                  c == Head(format)
                  next == m.mem[xs].cdr
              IN CASE c = "d" ->
                        IF ~integer_p(m.mem, x)
                        THEN MatchResult(wrong_argument_type(m, scope, "integerp", x), out)
                        ELSE match_loop_without_reals(m, scope, Tail(format), next,
                                                      Append(out, m.mem[x].num), i + 1)
                   [] c = "s" ->
                        IF ~string_p(m.mem, x)
                        THEN MatchResult(wrong_argument_type(m, scope, "stringp", x), out)
                        ELSE match_loop_without_reals(m, scope, Tail(format), next,
                                                      Append(out, m.mem[x].str), i + 1)
                   [] c = "q" ->
                        IF ~symbol_p(m.mem, x)
                        THEN MatchResult(wrong_argument_type(m, scope, "symbolp", x), out)
                        ELSE match_loop_without_reals(m, scope, Tail(format), next,
                                                      Append(out, m.mem[x].sym), i + 1)
                   [] c = "e" ->
                        match_loop_without_reals(m, scope, Tail(format), next,
                                                 Append(out, x), i + 1)
                   [] c = "*" ->
                        LET nil == Alloc(m, Sym("nil"))
                        IN match_loop_without_reals(nil.m, scope, Tail(format), nil.e,
                                                    Append(out, xs), i + 1)
                   [] OTHER ->
                        match_loop_without_reals(m, scope, Tail(format), next, out, i + 1)
    ELSE match_end_without_reals(m, scope, format, xs, out, i)

match_list_without_reals(m, scope, format, xs) ==
    match_loop_without_reals(m, scope, format, xs, <<>>, 0)

\* -------------------------------------------------------------- evaluator
\* if (r.is_error) return r; otherwise the code goes on with r
Bind(r, F(_)) == IF r.is_error THEN Plain(r) ELSE F(r)

RECURSIVE eval(_, _, _)
RECURSIVE eval_all_args(_, _, _)
RECURSIVE eval_funcall(_, _, _, _)
RECURSIVE call_lambda(_, _, _, _)
RECURSIVE eval_block(_, _, _)
RECURSIVE CallNative(_, _, _, _)
RECURSIVE QuasiquoteFn(_, _, _)
RECURSIVE LoadFn(_, _, _)

eval_atom(m, scope, atom) ==
    LET r == IF symbol_p(m.mem, atom)
             THEN LET value == get_scope_value(m.mem, scope, atom)
                  IN IF nil_p(m.mem, value)
                     THEN FailWith(m, scope, Pair(Sym("void-variable"), Ref(atom)))
                     ELSE eval_success(m, scope, m.mem[value].cdr)
             ELSE eval_success(m, scope, atom)
    IN [r EXCEPT !.m = Logged(@, [ev |-> "atom", expr |-> atom, scope |-> scope,
                                   mem |-> IF symbol_p(m.mem, atom) THEN m.mem ELSE <<>>,
                                   is_error |-> r.is_error,
                                   result |-> r.expr])]

\* variant: the remaining arguments are evaluated after a failing one
eval_all_args_to_the_end(m, scope, args) ==
    CASE args = VOID ->
            FailWith(m, scope, Pair(Sym("unexpected-expression"), Ref(args)))
      [] cons_p(m.mem, args) ->
            With(eval(m, scope, m.mem[args].car), LAMBDA car_r :
            With(eval_all_args(car_r.m, car_r.scope, car_r.m.mem[args].cdr), LAMBDA cdr_r :
            CASE car_r.is_error -> [car_r EXCEPT !.m = cdr_r.m, !.scope = cdr_r.scope]
              [] cdr_r.is_error -> cdr_r
              [] OTHER ->
                    With(create_cons(cdr_r.m, car_r.expr, cdr_r.expr), LAMBDA c :
                    eval_success(c.m, cdr_r.scope, c.e))))
      [] OTHER -> eval_atom(m, scope, args)

eval_all_args(m, scope, args) ==
    CASE args = VOID ->
            FailWith(m, scope, Pair(Sym("unexpected-expression"), Ref(args)))
      [] cons_p(m.mem, args) ->
            Bind(eval(m, scope, m.mem[args].car), LAMBDA car_r :
            Bind(eval_all_args(car_r.m, car_r.scope, car_r.m.mem[args].cdr), LAMBDA cdr_r :
            With(create_cons(cdr_r.m, car_r.expr, cdr_r.expr), LAMBDA c :
            eval_success(c.m, cdr_r.scope, c.e))))
      [] OTHER -> eval_atom(m, scope, args)

\* Scope scope = { .expr = lambda.atom->lambda.envir }
LambdaScope(mem, caller, lambda) == mem[lambda].envir

RECURSIVE lambda_body(_, _, _, _)
lambda_body(m, scope, body, result) ==
    IF ~nil_p(m.mem, body)
    THEN Bind(eval(m, scope, m.mem[body].car), LAMBDA r :
         lambda_body(r.m, r.scope, r.m.mem[body].cdr, r.expr))
    ELSE eval_success(m, scope, result)

\* the frame cells of a scope, the innermost first
RECURSIVE FramesOf(_, _)
FramesOf(mem, scope) ==
    IF cons_p(mem, scope) THEN <<scope>> \o FramesOf(mem, mem[scope].cdr) ELSE <<>>

\* history: call_lambda returns to a caller whose Scope is now `scope`
Returning(r, caller, pushed, scope) ==
    [r EXCEPT !.scope = scope,
              !.m = Logged(@, [ev |-> "return", is_error |-> r.is_error,
                               pushed |-> pushed, caller |-> caller, scope |-> scope,
                               frames |-> FramesOf(r.m.mem, scope)])]

\* variant: the frame is pushed on the caller's Scope and stays there
call_lambda_on_callers_scope(m, caller, lambda, args) ==
    CASE ~lambda_p(m.mem, lambda) ->
            FailWith(m, caller, Pair(Sym("expected-callable"), Ref(lambda)))
      [] ~list_p(m.mem, args) ->
            FailWith(m, caller, Pair(Sym("expected-arguments"), Ref(args)))
      [] length_of_list(m.mem, args) # length_of_list(m.mem, m.mem[lambda].args_list) ->
            FailWith(m, caller, Pair(Sym("wrong-integer-of-arguments"),
                                     Num(length_of_list(m.mem, args))))
      [] OTHER ->
            With(push_scope_frame(m, caller, m.mem[lambda].args_list, args), LAMBDA pushed :
            With(Alloc(Logged(pushed.m, [ev |-> "apply", lambda |-> lambda,
                                         args |-> args, scope |-> pushed.e,
                                         frames |-> FramesOf(m.mem, caller)]),
                       Sym("nil")), LAMBDA nil :
            With(lambda_body(nil.m, pushed.e, m.mem[lambda].body, nil.e), LAMBDA r :
            Returning(r, caller, pushed.e, pushed.e))))

call_lambda(m, caller, lambda, args) ==
    CASE ~lambda_p(m.mem, lambda) ->
            FailWith(m, caller, Pair(Sym("expected-callable"), Ref(lambda)))
      [] ~list_p(m.mem, args) ->
            FailWith(m, caller, Pair(Sym("expected-arguments"), Ref(args)))
      [] length_of_list(m.mem, args) # length_of_list(m.mem, m.mem[lambda].args_list) ->
            FailWith(m, caller, Pair(Sym("wrong-integer-of-arguments"),
                                     Num(length_of_list(m.mem, args))))
      [] OTHER ->
            With(push_scope_frame(m, LambdaScope(m.mem, caller, lambda),
                                  m.mem[lambda].args_list, args), LAMBDA pushed :
            With(Alloc(Logged(pushed.m, [ev |-> "apply", lambda |-> lambda,
                                         args |-> args, scope |-> pushed.e,
                                         frames |-> FramesOf(m.mem, caller)]),
                       Sym("nil")), LAMBDA nil :
            With(lambda_body(nil.m, pushed.e, m.mem[lambda].body, nil.e), LAMBDA r :
            Returning(r, caller, pushed.e, caller))))

\* symbol_p(callable_expr) && is_special(callable_expr.atom->sym)
special_p(mem, callable_expr) ==
    symbol_p(mem, callable_expr) /\ is_special(mem[callable_expr].sym)

eval_funcall(m, scope, callable_expr, args_expr) ==
    Bind(eval(m, scope, callable_expr), LAMBDA callable_result :
    Bind(IF special_p(m.mem, callable_expr)
         THEN eval_success(Logged(callable_result.m,
                                  [ev |-> "dispatch", head |-> callable_expr,
                                   forms |-> args_expr, special |-> TRUE]),
                           callable_result.scope, args_expr)
         ELSE eval_all_args(Logged(callable_result.m,
                                   [ev |-> "dispatch", head |-> callable_expr,
                                    forms |-> args_expr, special |-> FALSE]),
                            callable_result.scope, args_expr),
         LAMBDA args_result :
    LET m2 == Logged(args_result.m,
                     [ev |-> "call", head |-> callable_expr,
                      callee |-> callable_result.expr,
                      forms |-> args_expr, args |-> args_result.expr])
    IN IF native_p(m2.mem, callable_result.expr)
       THEN CallNative(m2.mem[callable_result.expr].fun, m2,
                       args_result.scope, args_result.expr)
       ELSE call_lambda(m2, args_result.scope,
                        callable_result.expr, args_result.expr)))

RECURSIVE block_loop(_, _, _, _)
block_loop(m, scope, head, result) ==
    IF cons_p(m.mem, head)
    THEN Bind(eval(m, scope, m.mem[head].car), LAMBDA r :
         block_loop(r.m, r.scope, r.m.mem[head].cdr, r.expr))
    ELSE eval_success(m, scope, result)

\* variant: a collection is started before the forms of the block
eval_block_collecting(m, scope, block) ==
    IF ~list_p(m.mem, block)
    THEN wrong_argument_type(m, scope, "listp", block)
    ELSE LET nil == Alloc(Logged(m, [ev |-> "collect"]), Sym("nil"))
         IN block_loop(nil.m, scope, block, nil.e)

eval_block(m, scope, block) ==
    IF ~list_p(m.mem, block)
    THEN wrong_argument_type(m, scope, "listp", block)
    ELSE LET nil == Alloc(m, Sym("nil"))
         IN block_loop(nil.m, scope, block, nil.e)

\* history: the evaluation of expr returned the error r.expr
Traced(expr, r) ==
    IF r.is_error
    THEN [r EXCEPT !.m = Logged(@, [ev |-> "failed", expr |-> expr, error |-> r.expr])]
    ELSE r

eval(m, scope, expr) ==
    CASE expr = VOID ->
            FailWith(m, scope, Pair(Sym("unexpected-expression"), Ref(expr)))
      [] cons_p(m.mem, expr) ->
            Traced(expr, eval_funcall(Logged(m, [ev |-> "eval", expr |-> expr]), scope,
                                      m.mem[expr].car, m.mem[expr].cdr))
      [] OTHER ->
            Traced(expr, eval_atom(Logged(m, [ev |-> "eval", expr |-> expr]), scope, expr))

\* --------------------------------------------------------------- built-ins
bool_as_expr(m, scope, condition) ==
    OkWith(m, scope, IF condition THEN Sym("t") ELSE Sym("nil"))

\* car hands xs itself to match_list, not its address: the matcher stores the
\* argument through what it takes for a pointer (history: "store"), and xs is
\* the nil it was created as when the matcher returns
car(m, scope, args) ==
    With(Alloc(m, Sym("nil")), LAMBDA xs :
    Bind(match_list(xs.m, scope, <<"e">>, args), LAMBDA r :
    With([m |-> Logged(r.m, [ev |-> "store", through |-> xs.e, value |-> r.out[1]])],
         LAMBDA stored :
    CASE nil_p(stored.m.mem, xs.e) -> eval_success(stored.m, scope, xs.e)
      [] ~cons_p(stored.m.mem, xs.e) -> wrong_argument_type(stored.m, scope, "consp", xs.e)
      [] OTHER -> eval_success(stored.m, scope, stored.m.mem[xs.e].car))))

RealFn(m, scope, a) ==
    CASE real_p(m.mem, a) -> eval_success(m, scope, a)
      [] integer_p(m.mem, a) -> OkWith(m, scope, Flt(FloatOf(m.mem[a].num)))
      [] OTHER -> wrong_argument_type(m, scope, "(or realp integerp)", a)

\* the shape shared by Plus2Fn, Mul2Fn and GreaterThan2Fn
Num2(m, scope, a, b, op) ==
    IF integer_p(m.mem, a) /\ integer_p(m.mem, b)
    THEN CASE op = "+" -> OkWith(m, scope, Long(long_add(m.mem[a].num, m.mem[b].num)))
           [] op = "*" -> OkWith(m, scope, Long(long_mul(m.mem[a].num, m.mem[b].num)))
           [] op = ">" -> bool_as_expr(m, scope, long_less(m.mem[b].num, m.mem[a].num))
    ELSE Bind(RealFn(m, scope, a), LAMBDA result_a :
         Bind(RealFn(result_a.m, scope, b), LAMBDA result_b :
         LET ra == result_b.m.mem[result_a.expr].real
             rb == result_b.m.mem[result_b.expr].real
         IN CASE op = "+" -> OkWith(result_b.m, scope, Flt(ra + rb))
              [] op = "*" -> OkWith(result_b.m, scope, Flt(ra * rb))
              [] op = ">" -> bool_as_expr(result_b.m, scope, ra > rb)))

Plus2Fn(m, scope, a, b) == Num2(m, scope, a, b, "+")

Mul2Fn(m, scope, a, b) == Num2(m, scope, a, b, "*")

GreaterThan2Fn(m, scope, a, b) == Num2(m, scope, a, b, ">")

RECURSIVE fold_loop(_, _, _, _, _)
fold_loop(m, scope, acc, args, op) ==
    CASE nil_p(m.mem, args) -> eval_success(m, scope, acc)
      [] ~cons_p(m.mem, args) -> wrong_argument_type(m, scope, "consp", args)
      [] OTHER ->
            Bind(Num2(m, scope, acc, m.mem[args].car, op), LAMBDA result :
            fold_loop(result.m, scope, result.expr, m.mem[args].cdr, op))

PlusOpFn(m, scope, args) ==
    LET acc == Alloc(m, Num(0)) IN fold_loop(acc.m, scope, acc.e, args, "+")

MulOpFn(m, scope, args) ==
    LET acc == Alloc(m, Num(1)) IN fold_loop(acc.m, scope, acc.e, args, "*")

RECURSIVE sorted_loop(_, _, _, _, _)
sorted_loop(m, scope, x1, args, sorted) ==
    IF ~nil_p(m.mem, args) /\ sorted
    THEN Bind(GreaterThan2Fn(m, scope, x1, m.mem[args].car), LAMBDA result :
         sorted_loop(result.m, scope, m.mem[args].car, m.mem[args].cdr,
                     sorted /\ ~nil_p(result.m.mem, result.expr)))
    ELSE bool_as_expr(m, scope, sorted)

GreaterThanFn(m, scope, args) ==
    IF ~cons_p(m.mem, args)
    THEN wrong_argument_type(m, scope, "consp", args)
    ELSE sorted_loop(m, scope, m.mem[args].car, m.mem[args].cdr, TRUE)

ListOpFn(m, scope, args) == eval_success(m, scope, args)

AssocOpFn(m, scope, args) ==
    Bind(match_list(Alloc(Alloc(m, Sym("nil")).m, Sym("nil")).m, scope,
                    <<"e", "e">>, args), LAMBDA r :
    eval_success(r.m, scope, assoc(r.m.mem, r.out[1], r.out[2])))

SetFn(m, scope, args) ==
    Bind(match_list(m, scope, <<"q", "e">>, args), LAMBDA r :
    Bind(eval(r.m, scope, r.out[2]), LAMBDA result :
    With(Alloc(result.m, Sym(r.out[1])), LAMBDA name :
    With(set_scope_value(name.m, result.scope, name.e, result.expr), LAMBDA s :
    eval_success(Logged(s.m, [ev |-> "set", name |-> r.out[1], scope |-> s.e,
                              value |-> result.expr]),
                 s.e, result.expr)))))

QuoteFn(m, scope, args) ==
    Bind(match_list(m, scope, <<"e">>, args), LAMBDA r :
    eval_success(r.m, scope, r.out[1]))

BeginFn(m, scope, args) ==
    Bind(match_list(m, scope, <<"*">>, args), LAMBDA r :
    eval_block(r.m, scope, r.out[1]))

\* LambdaFn: create_lambda_atom(gc, args, body, scope->expr)
lambda(m, scope, args_list, body) == Alloc(m, Lambda(args_list, body, scope))

DefunFn(m, scope, args) ==
    Bind(match_list(m, scope, <<"e", "e", "*">>, args), LAMBDA r :
    IF ~list_of_symbols_p(r.m.mem, r.out[2])
    THEN wrong_argument_type(r.m, scope, "list-of-symbolsp", r.out[2])
    ELSE With(lambda(r.m, scope, r.out[2], r.out[3]), LAMBDA l :
         With(list(l.m, <<Sym("set"), Ref(r.out[1]), Ref(l.e)>>), LAMBDA form :
         eval(form.m, scope, form.e))))

WhenFn(m, scope, args) ==
    Bind(match_list(m, scope, <<"e", "*">>, args), LAMBDA r :
    Bind(eval(r.m, scope, r.out[1]), LAMBDA result :
    IF ~nil_p(result.m.mem, result.expr)
    THEN eval_block(result.m, result.scope, r.out[2])
    ELSE OkWith(result.m, result.scope, Sym("nil"))))

LambdaOpFn(m, scope, args) ==
    Bind(match_list(m, scope, <<"e", "*">>, args), LAMBDA r :
    IF ~list_of_symbols_p(r.m.mem, r.out[1])
    THEN wrong_argument_type(r.m, scope, "list-of-symbolsp", r.out[1])
    ELSE With(lambda(r.m, scope, r.out[1], r.out[2]), LAMBDA l :
         eval_success(l.m, scope, l.e)))

EqualOpFn(m, scope, args) ==
    Bind(match_list(m, scope, <<"e", "e">>, args), LAMBDA r :
    OkWith(r.m, scope, IF equal(r.m.mem, r.out[1], r.out[2])
                       THEN Sym("t") ELSE Sym("nil")))

\* !res.is_error && strcmp(unquote, "unquote") == 0
IsUnquote(u) == ~u.is_error /\ u.out[1] = "unquote"

QuasiquoteFn(m, scope, args) ==
    Bind(match_list(m, scope, <<"e">>, args), LAMBDA r :
    With(match_list(r.m, scope, <<"q", "e">>, r.out[1]), LAMBDA u :
    CASE IsUnquote(u) -> eval(u.m, scope, u.out[2])
      [] cons_p(u.m.mem, r.out[1]) ->
            With(list(u.m, <<Ref(u.m.mem[r.out[1]].car)>>), LAMBDA la :
            Bind(QuasiquoteFn(la.m, scope, la.e), LAMBDA left :
            With(list(left.m, <<Ref(left.m.mem[r.out[1]].cdr)>>), LAMBDA ra :
            Bind(QuasiquoteFn(ra.m, left.scope, ra.e), LAMBDA right :
            With(create_cons(right.m, left.expr, right.expr), LAMBDA c :
            eval_success(c.m, right.scope, c.e))))))
      [] OTHER -> eval_success(u.m, scope, r.out[1])))

UnquoteFn(m, scope, args) ==
    FailWith(m, scope, Str("Using unquote outside of quasiquote."))

RECURSIVE append_helper(_, _, _)
append_helper(m, scope, xs) ==
    IF nil_p(m.mem, xs) THEN OkWith(m, scope, Sym("nil"))
    ELSE Bind(match_list(m, scope, <<"e", "*">>, xs), LAMBDA r :
         Bind(append_helper(r.m, scope, r.out[2]), LAMBDA result_xs1 :
         With(create_cons(result_xs1.m, r.out[1], result_xs1.expr), LAMBDA c :
         eval_success(c.m, scope, c.e))))

AppendFn(m, scope, args) ==
    IF nil_p(m.mem, args) THEN OkWith(m, scope, Sym("nil"))
    ELSE append_helper(m, scope, args)

CallNative(fun, m, scope, args) ==
    CASE fun = "car" -> car(m, scope, args)
      [] fun = "greaterThan" -> GreaterThanFn(m, scope, args)
      [] fun = "plus_op" -> PlusOpFn(m, scope, args)
      [] fun = "mul_op" -> MulOpFn(m, scope, args)
      [] fun = "list_op" -> ListOpFn(m, scope, args)
      [] fun = "assoc_op" -> AssocOpFn(m, scope, args)
      [] fun = "quasiquote" -> QuasiquoteFn(m, scope, args)
      [] fun = "set" -> SetFn(m, scope, args)
      [] fun = "quote" -> QuoteFn(m, scope, args)
      [] fun = "begin" -> BeginFn(m, scope, args)
      [] fun = "defun" -> DefunFn(m, scope, args)
      [] fun = "when" -> WhenFn(m, scope, args)
      [] fun = "lambda_op" -> LambdaOpFn(m, scope, args)
      [] fun = "unquote" -> UnquoteFn(m, scope, args)
      [] fun = "load" -> LoadFn(m, scope, args)
      [] fun = "append" -> AppendFn(m, scope, args)
      [] fun = "equal_op" -> EqualOpFn(m, scope, args)

\* the bindings of load_std_library, in the order it installs them
StdLibrary ==
    <<<<"car", Native("car")>>, <<">", Native("greaterThan")>>,
      <<"+", Native("plus_op")>>, <<"*", Native("mul_op")>>,
      <<"list", Native("list_op")>>, <<"t", Sym("t")>>, <<"nil", Sym("nil")>>,
      <<"assoc", Native("assoc_op")>>, <<"quasiquote", Native("quasiquote")>>,
      <<"set", Native("set")>>, <<"quote", Native("quote")>>,
      <<"begin", Native("begin")>>, <<"defun", Native("defun")>>,
      <<"when", Native("when")>>, <<"lambda", Native("lambda_op")>>,
      <<"λ", Native("lambda_op")>>, <<"unquote", Native("unquote")>>,
      <<"load", Native("load")>>,
      <<"append", Native("append")>>, <<"equal", Native("equal_op")>>>>

\* set_scope_value(gc, scope, SYMBOL(gc, name), value) of the i-th binding
load_binding(m, scope, i) ==
    LET name == Alloc(m, Sym(StdLibrary[i][1]))
        value == Alloc(name.m, StdLibrary[i][2])
    IN set_scope_value(value.m, scope, name.e, value.e)

RECURSIVE load_bindings(_, _, _)
load_bindings(m, scope, i) ==
    IF i > Len(StdLibrary) THEN [m |-> m, e |-> scope]
    ELSE With(load_binding(m, scope, i), LAMBDA s : load_bindings(s.m, s.e, i + 1))

load_std_library(m, scope) == load_bindings(m, scope, 1)

\* -------------------------------------------------------------- collector
\* the integer a table entry is ordered by: the address of its object, which
\* is laid out here in the order of allocation; 0 for a void entry
value_of_expr(expr) == expr

compare_exprs(a, b) ==
    LET d == value_of_expr(b) - value_of_expr(a)
    IN IF d < 0 THEN 0 - 1 ELSE IF d > 0 THEN 1 ELSE 0

\* bsearch of the C library over exprs[l .. u-1], indices from 0
RECURSIVE bsearch(_, _, _, _)
bsearch(key, exprs, l, u) ==
    IF l < u
    THEN LET idx == (l + u) \div 2
             comparison == compare_exprs(key, exprs[idx + 1])
         IN CASE comparison < 0 -> bsearch(key, exprs, l, idx)
              [] comparison > 0 -> bsearch(key, exprs, idx + 1, u)
              [] OTHER -> idx
    ELSE 0 - 1

gc_find_expr(exprs, expr) == bsearch(expr, exprs, 0, Len(exprs))

\* visited[index]; index -1 is the bit in front of the vector, whose value
\* nothing in the program determines
\* variant: no slot is ever seen as visited
visited_at_never(st, index) == FALSE

visited_at(st, index) == IF index < 0 THEN st.stray ELSE index \in st.visited

mark_visited(st, index) ==
    IF index < 0 THEN [st EXCEPT !.stray = TRUE]
    ELSE [st EXCEPT !.visited = @ \cup {index}]

\* st.assert: the build keeps assert(root_index >= 0)
RECURSIVE gc_traverse_expr(_, _, _, _)
gc_traverse_expr(mem, exprs, st, root) ==
    IF st.aborted THEN st
    ELSE LET root_index == gc_find_expr(exprs, root)
         IN CASE root_index < 0 /\ st.assert -> [st EXCEPT !.aborted = TRUE]
              [] visited_at(st, root_index) -> st
              [] cons_p(mem, root) ->
                    gc_traverse_expr(mem, exprs,
                        gc_traverse_expr(mem, exprs, mark_visited(st, root_index),
                                         mem[root].car),
                        mem[root].cdr)
              [] lambda_p(mem, root) ->
                    gc_traverse_expr(mem, exprs,
                        gc_traverse_expr(mem, exprs,
                            gc_traverse_expr(mem, exprs, mark_visited(st, root_index),
                                             mem[root].args_list),
                            mem[root].body),
                        mem[root].envir)
              [] OTHER -> mark_visited(st, root_index)

\* destroy_expr on the object of every entry that was not visited
destroy_expr(mem, exprs, visited) ==
    [h \in 1..Len(mem) |->
        IF \E i \in 1..Len(exprs) : exprs[i] = h /\ (i - 1) \notin visited
        THEN [type |-> "EXPR_VOID"]
        ELSE mem[h]]

\* the table as gc_collect orders it: std::sort by value_of_expr, ascending,
\* then the void entries erased
sorted_exprs(exprs) ==
    SelectSeq(SortSeq(exprs, LAMBDA a, b : value_of_expr(a) < value_of_expr(b)),
              LAMBDA e : e # VOID)

\* the result of gc_collect: the machine after the sweep, or aborted
gc_collect(m, root, assert, stray) ==
    LET exprs == sorted_exprs(m.exprs)
        st == gc_traverse_expr(m.mem, exprs,
                               [visited |-> {}, stray |-> stray,
                                assert |-> assert, aborted |-> FALSE],
                               root)
    IN [aborted |-> st.aborted,
        visited |-> {exprs[i + 1] : i \in st.visited},
        m |-> IF st.aborted THEN Logged(m, [ev |-> "collect"])
              ELSE [m EXCEPT !.mem = destroy_expr(m.mem, exprs, st.visited),
                             !.exprs = [i \in 1..Len(exprs) |->
                                           IF (i - 1) \in st.visited
                                           THEN exprs[i] ELSE VOID],
                             !.log = Append(@, [ev |-> "collect"])]]

\* the objects an object refers to
Children(mem, h) ==
    CASE cons_p(mem, h) -> {mem[h].car, mem[h].cdr}
      [] lambda_p(mem, h) -> {mem[h].args_list, mem[h].body, mem[h].envir}
      [] OTHER -> {}

\* ------------------------------------------------------------------ reader
\* A text is the sequence of its characters; a position in it is an index,
\* Len(str) + 1 is the position of the terminating NUL.  What lies after the
\* terminator does not belong to the text: STRAY is the byte at which a scan
\* that started there has stopped.
NUL == ""

\* the backquote character, written as a word
BACKQUOTE == "backquote"

STRAY == "\f"

At(str, i) ==
    CASE i <= Len(str) -> str[i]
      [] i = Len(str) + 1 -> NUL
      [] OTHER -> STRAY

isspace(c) == c \in {" ", "\t", "\n", "\r", "\f"}

isdigit(c) == c \in {"0", "1", "2", "3", "4", "5", "6", "7", "8", "9"}

DigitValue(c) == CHOOSE d \in 0..9 : <<"0", "1", "2", "3", "4", "5", "6", "7", "8", "9">>[d + 1] = c

\* past: the token was cut by a scan that started after the terminator
token(begin, end) == [begin |-> begin, end |-> end, past |-> FALSE]

is_symbol_char(x) == x \notin {"(", ")", "\"", "'", ";", BACKQUOTE, ","} /\ ~isspace(x)

RECURSIVE skip_whitespace(_, _)
skip_whitespace(str, begin) ==
    IF begin <= Len(str) /\ isspace(str[begin])
    THEN skip_whitespace(str, begin + 1)
    ELSE begin

RECURSIVE next_quote(_, _)
next_quote(str, i) ==
    IF At(str, i) # NUL /\ At(str, i) # "\""
    THEN next_quote(str, i + 1)
    ELSE i

RECURSIVE skip_until_newline(_, _)
skip_until_newline(str, i) ==
    IF At(str, i) # NUL /\ At(str, i) # "\n"
    THEN skip_until_newline(str, i + 1)
    ELSE i

RECURSIVE next_non_symbol(_, _)
next_non_symbol(str, begin) ==
    IF begin <= Len(str) /\ is_symbol_char(str[begin])
    THEN next_non_symbol(str, begin + 1)
    ELSE begin

\* while (*str != 0 && *str == ';')
RECURSIVE skip_comments(_, _)
skip_comments(str, i) ==
    IF At(str, i) = ";"
    THEN skip_comments(str, skip_whitespace(str, skip_until_newline(str, i + 1)))
    ELSE i

\* the token that starts at or after position i.  After a comment that ends
\* the text the switch takes its default case on the terminator, and the scan
\* for the end of the token starts after it
next_token(str, i) ==
    LET first == skip_whitespace(str, i)
        begin == skip_comments(str, first)
        c == At(str, begin)
    IN CASE At(str, first) = NUL -> token(first, first)
         [] c \in {"(", ")", ".", "'", BACKQUOTE, ","} -> token(begin, begin + 1)
         [] c = "\"" ->
               LET str_end == next_quote(str, begin + 1)
               IN token(begin, IF At(str, str_end) = NUL THEN str_end ELSE str_end + 1)
         [] c = NUL -> [begin |-> begin, end |-> begin + 2, past |-> TRUE]
         [] OTHER -> token(begin, next_non_symbol(str, begin + 1))

\* strtol(str + i, &endptr, 10): an optional sign and decimal digits; the
\* value is kept within LONG_MIN..LONG_MAX; without digits endptr is i
LONG_MAX == [i \in 1..LONG_BYTES |-> IF i = LONG_BYTES THEN 127 ELSE 255]
LONG_MIN == [i \in 1..LONG_BYTES |-> IF i = LONG_BYTES THEN 128 ELSE 0]

long_neg(a) == long_add([i \in 1..Len(a) |-> 255 - a[i]], Bytes(1, Len(a)))

RECURSIVE digits_end(_, _)
digits_end(str, i) == IF isdigit(At(str, i)) THEN digits_end(str, i + 1) ELSE i

\* the value of the digits at i..(end - 1), on 2 * LONG_BYTES bytes
RECURSIVE digits_value(_, _, _, _)
digits_value(str, i, end, acc) ==
    IF i >= end THEN acc
    ELSE With(long_add(long_mul(acc, Bytes(10, 2 * LONG_BYTES)),
                       Bytes(DigitValue(str[i]), 2 * LONG_BYTES)), LAMBDA next :
         digits_value(str, i + 1, end, next))

clamp(wide) ==
    CASE long_less(wide, Extend(LONG_MIN, 2 * LONG_BYTES)) -> LONG_MIN
      [] long_less(Extend(LONG_MAX, 2 * LONG_BYTES), wide) -> LONG_MAX
      [] OTHER -> SubSeq(wide, 1, LONG_BYTES)

strtol(str, i) ==
    LET signed == At(str, i) \in {"-", "+"}
        first == IF signed THEN i + 1 ELSE i
        end == digits_end(str, first)
        magnitude == digits_value(str, first, end, Bytes(0, 2 * LONG_BYTES))
    IN IF end = first
       THEN [x |-> ToLong(0), endptr |-> i]
       ELSE [x |-> clamp(IF At(str, i) = "-" THEN long_neg(magnitude) ELSE magnitude),
             endptr |-> end]

\* strtof(str + i, &endptr) on decimal notation: an optional sign, digits
\* with an optional point, at least one digit.  The float is the one nearest
\* to the decimal, kept as the digits of the decimal before and after the
\* point, without the zeros in front and at the end
RECURSIVE StripZeros(_)
StripZeros(digits) ==
    IF digits # <<>> /\ digits[Len(digits)] = "0"
    THEN StripZeros(SubSeq(digits, 1, Len(digits) - 1))
    ELSE digits

RECURSIVE StripLeadingZeros(_)
StripLeadingZeros(digits) ==
    IF digits # <<>> /\ digits[1] = "0"
    THEN StripLeadingZeros(Tail(digits))
    ELSE digits

strtof(str, i) ==
    LET signed == At(str, i) \in {"-", "+"}
        first == IF signed THEN i + 1 ELSE i
        point == digits_end(str, first)
        end == IF At(str, point) = "." THEN digits_end(str, point + 1) ELSE point
        whole == StripLeadingZeros(SubSeq(str, first, point - 1))
        fraction == StripZeros(SubSeq(str, point + 1, end - 1))
        sign == IF At(str, i) = "-" THEN 0 - 1 ELSE 1
    IN IF point = first /\ end <= point + 1
       THEN [x |-> [sign |-> 1, whole |-> <<>>, fraction |-> <<>>], endptr |-> i]
       ELSE [x |-> [sign |-> sign, whole |-> whole, fraction |-> fraction],
             endptr |-> end]

\* the names that the texts spell, each with its characters: a symbol atom
\* is created from the characters of its token, and printed as them
Spellings ==
    <<<<"nil", <<"n", "i", "l">>>>, <<"a", <<"a">>>>, <<"b", <<"b">>>>,
      <<"aa", <<"a", "a">>>>, <<"aaa", <<"a", "a", "a">>>>,
      <<"aaaa", <<"a", "a", "a", "a">>>>, <<"aaaaa", <<"a", "a", "a", "a", "a">>>>,
      <<"ab", <<"a", "b">>>>, <<"ba", <<"b", "a">>>>,
      <<"bb", <<"b", "b">>>>, <<"quote", <<"q", "u", "o", "t", "e">>>>,
      <<"quasiquote", <<"q", "u", "a", "s", "i", "q", "u", "o", "t", "e">>>>,
      <<"unquote", <<"u", "n", "q", "u", "o", "t", "e">>>>,
      <<")", <<")">>>>, <<".", <<".">>>>, <<"-", <<"-">>>>, <<"\\", <<"\\">>>>,
      <<"t", <<"t">>>>, <<"+", <<"+">>>>, <<"car", <<"c", "a", "r">>>>,
      <<"list", <<"l", "i", "s", "t">>>>, <<"set", <<"s", "e", "t">>>>,
      <<"begin", <<"b", "e", "g", "i", "n">>>>, <<"when", <<"w", "h", "e", "n">>>>,
      <<"defun", <<"d", "e", "f", "u", "n">>>>,
      <<"lambda", <<"l", "a", "m", "b", "d", "a">>>>,
      <<"append", <<"a", "p", "p", "e", "n", "d">>>>,
      <<"assoc", <<"a", "s", "s", "o", "c">>>>,
      <<"equal", <<"e", "q", "u", "a", "l">>>>>>

Spell(name) == Spellings[CHOOSE i \in 1..Len(Spellings) : Spellings[i][1] = name][2]

Intern(chars) == Spellings[CHOOSE i \in 1..Len(Spellings) : Spellings[i][2] = chars][1]

\* create_symbol_atom(gc, begin, end); create_string_atom keeps the characters
create_symbol_atom(m, str, begin, end) == Alloc(m, Sym(Intern(SubSeq(str, begin, end - 1))))

create_string_atom(m, chars) == Alloc(m, Str(chars))

parse_success(m, expr, end) ==
    [is_error |-> FALSE, expr |-> expr, error_message |-> "", end |-> end, m |-> m,
     past |-> FALSE]

parse_failure(m, error_message, end) ==
    [is_error |-> TRUE, expr |-> VOID, error_message |-> error_message, end |-> end,
     m |-> m, past |-> FALSE]

\* parse_failure(message, current_token.begin)
token_failure(m, error_message, tok) ==
    [parse_failure(m, error_message, tok.begin) EXCEPT !.past = tok.past]

\* if (r.is_error) return r; otherwise the code goes on with r
Then(r, F(_)) == IF r.is_error THEN r ELSE F(r)

RECURSIVE parse_expr(_, _, _)
RECURSIVE parse_list(_, _, _)
RECURSIVE parse_cdr(_, _, _)
RECURSIVE list_loop(_, _, _, _)

read_expr_from_string(m, str, i) == parse_expr(m, str, next_token(str, i))

parse_cdr(m, str, current_token) ==
    IF At(str, current_token.begin) # "."
    THEN token_failure(m, "Expected .", current_token)
    ELSE Then(read_expr_from_string(m, str, current_token.end), LAMBDA tail :
         With(next_token(str, tail.end), LAMBDA closing :
         IF At(str, closing.begin) # ")"
         THEN token_failure(tail.m, "Expected )", closing)
         ELSE parse_success(tail.m, tail.expr, closing.end)))

parse_list_end(m, str, current_token) ==
    IF At(str, current_token.begin) # ")"
    THEN token_failure(m, "Expected )", current_token)
    ELSE With(Alloc(m, Sym("nil")), LAMBDA nil :
         parse_success(nil.m, nil.e, current_token.end))

\* cons->cdr = x
\* variant: the cdr of the cell is left as it was created
set_cdr_left_void(m, cons, x) == m

set_cdr(m, cons, x) == [m EXCEPT !.mem[cons].cdr = x]

\* the loop of parse_list: the elements after the first, each in a new cell
\* whose cdr is void until the next turn or the end of the list fills it
list_loop(m, str, cons, current_token) ==
    IF At(str, current_token.begin) \notin {".", ")", NUL}
    THEN Then(parse_expr(m, str, current_token), LAMBDA first_expr :
         With(create_cons(first_expr.m, first_expr.expr, VOID), LAMBDA cell :
         list_loop(set_cdr(cell.m, cons, cell.e), str, cell.e,
                   next_token(str, first_expr.end))))
    ELSE [is_error |-> FALSE, m |-> m, cons |-> cons, current_token |-> current_token]

parse_list(m, str, current_token) ==
    IF At(str, current_token.begin) # "("
    THEN token_failure(m, "Expected (", current_token)
    ELSE With(next_token(str, current_token.end), LAMBDA first :
         IF At(str, first.begin) = ")"
         THEN parse_list_end(m, str, first)
         ELSE Then(parse_expr(m, str, first), LAMBDA first_expr :
              With(create_cons(first_expr.m, first_expr.expr, VOID), LAMBDA head :
              Then(list_loop(head.m, str, head.e, next_token(str, first_expr.end)), LAMBDA l :
              Then(IF At(str, l.current_token.begin) = "."
                   THEN parse_cdr(l.m, str, l.current_token)
                   ELSE parse_list_end(l.m, str, l.current_token), LAMBDA tail :
              parse_success(set_cdr(tail.m, l.cons, tail.expr), head.e, tail.end))))))

\* the loop of parse_string over the characters after the opening quote
RECURSIVE string_loop(_, _, _, _, _, _)
string_loop(m, str, current_token, c, chars, escaped) ==
    LET x == At(str, c)
    IN CASE x = NUL -> token_failure(m, "Unclosed string", current_token)
         [] escaped ->
               CASE x = "n" -> string_loop(m, str, current_token, c + 1, Append(chars, "\n"), FALSE)
                 [] x = "r" -> string_loop(m, str, current_token, c + 1, Append(chars, "\r"), FALSE)
                 [] x = "t" -> string_loop(m, str, current_token, c + 1, Append(chars, "\t"), FALSE)
                 [] x = "\\" -> string_loop(m, str, current_token, c + 1, Append(chars, "\\"), FALSE)
                 [] x = "\"" -> string_loop(m, str, current_token, c + 1, Append(chars, "\""), FALSE)
                 [] OTHER -> parse_failure(m, "Invalid escaped character", c)
         [] x = "\\" -> string_loop(m, str, current_token, c + 1, chars, TRUE)
         [] x = "\"" ->
               With(create_string_atom(m, chars), LAMBDA atom :
               parse_success(atom.m, atom.e, c + 1))
         [] OTHER -> string_loop(m, str, current_token, c + 1, Append(chars, x), FALSE)

parse_string(m, str, current_token) ==
    IF At(str, current_token.begin) # "\""
    THEN token_failure(m, "Expected \"", current_token)
    ELSE string_loop(m, str, current_token, current_token.begin + 1, <<>>, FALSE)

\* the parse_string of the variant without escapes: the token is the literal
parse_string_verbatim(m, str, current_token) ==
    CASE At(str, current_token.begin) # "\"" ->
            token_failure(m, "Expected \"", current_token)
      [] At(str, current_token.end - 1) # "\"" ->
            token_failure(m, "Unclosed string", current_token)
      [] current_token.begin + 1 = current_token.end ->
            With(create_string_atom(m, <<>>), LAMBDA atom :
            parse_success(atom.m, atom.e, current_token.end))
      [] OTHER ->
            With(create_string_atom(m, SubSeq(str, current_token.begin + 1,
                                              current_token.end - 2)), LAMBDA atom :
            parse_success(atom.m, atom.e, current_token.end))

parse_integer(m, str, current_token) ==
    LET n == strtol(str, current_token.begin)
    IN IF current_token.begin = n.endptr \/ current_token.end # n.endptr
       THEN token_failure(m, "Expected integer", current_token)
       ELSE With(Alloc(m, Long(n.x)), LAMBDA atom :
            parse_success(atom.m, atom.e, current_token.end))

parse_real(m, str, current_token) ==
    LET n == strtof(str, current_token.begin)
    IN IF current_token.begin = n.endptr \/ current_token.end # n.endptr
       THEN token_failure(m, "Expected real", current_token)
       ELSE With(Alloc(m, Flt(n.x)), LAMBDA atom :
            parse_success(atom.m, atom.e, current_token.end))

parse_symbol(m, str, current_token) ==
    IF At(str, current_token.begin) = NUL
    THEN token_failure(m, "EOF", current_token)
    ELSE With(create_symbol_atom(m, str, current_token.begin, current_token.end),
              LAMBDA atom :
         parse_success(atom.m, atom.e, current_token.end))

\* result.expr = list(gc, "qe", name, result.expr)
Quoted(name, result) ==
    With(list(result.m, <<Sym(name), Ref(result.expr)>>), LAMBDA l :
    [result EXCEPT !.expr = l.e, !.m = l.m])

parse_number(m, str, current_token) ==
    LET integer == parse_integer(m, str, current_token)
        real == parse_real(m, str, current_token)
    IN CASE ~integer.is_error -> integer
         [] ~real.is_error -> real
         [] OTHER -> parse_symbol(m, str, current_token)

parse_expr(m, str, current_token) ==
    LET c == At(str, current_token.begin)
    IN CASE c = NUL -> token_failure(m, "EOF", current_token)
         [] c = "(" -> parse_list(m, str, current_token)
         [] c = "\"" -> parse_string(m, str, current_token)
         [] c = "'" ->
               Then(parse_expr(m, str, next_token(str, current_token.end)),
                    LAMBDA result : Quoted("quote", result))
         [] c = BACKQUOTE ->
               Then(parse_expr(m, str, next_token(str, current_token.end)),
                    LAMBDA result : Quoted("quasiquote", result))
         [] c = "," ->
               Then(parse_expr(m, str, next_token(str, current_token.end)),
                    LAMBDA result : Quoted("unquote", result))
         [] c = "-" \/ isdigit(c) -> parse_number(m, str, current_token)
         [] OTHER -> parse_symbol(m, str, current_token)

\* the loop of read_all_exprs_from_string
RECURSIVE read_loop(_, _, _, _, _)
read_loop(m, str, cons, current_token, last_end) ==
    IF At(str, current_token.end) # NUL
    THEN Then(parse_expr(m, str, current_token), LAMBDA parse_result :
         With(create_cons(parse_result.m, parse_result.expr, VOID), LAMBDA cell :
         read_loop(set_cdr(cell.m, cons, cell.e), str, cell.e,
                   next_token(str, parse_result.end), parse_result.end)))
    ELSE With(Alloc(m, Sym("nil")), LAMBDA nil :
         [is_error |-> FALSE, m |-> set_cdr(nil.m, cons, nil.e), end |-> last_end])

read_all_exprs_from_string(m, str) ==
    With(next_token(str, 1), LAMBDA current_token :
    IF At(str, current_token.end) = NUL
    THEN With(Alloc(m, Sym("nil")), LAMBDA nil :
         parse_success(nil.m, nil.e, current_token.end))
    ELSE Then(parse_expr(m, str, current_token), LAMBDA parse_result :
         With(create_cons(parse_result.m, parse_result.expr, VOID), LAMBDA head :
         Then(read_loop(head.m, str, head.e, next_token(str, parse_result.end),
                        parse_result.end), LAMBDA l :
         parse_success(l.m, head.e, l.end)))))

\* ------------------------------------------------------------------- load
\* the files there are, each with its text
Files ==
    <<<<"f", <<"(", "l", "i", "s", "t", " ", "1", ")", " ", "t", " ">>>>,
      <<"e", <<>>>>>>

\* the file is opened and its text is read whole
read_all_exprs_from_file(m, filename) ==
    CASE \A i \in 1..Len(Files) : Files[i][1] # filename ->
            parse_failure(m, "No such file or directory", 0)
      [] Files[CHOOSE i \in 1..Len(Files) : Files[i][1] = filename][2] = <<>> ->
            parse_failure(m, "File is empty", 0)
      [] OTHER ->
            read_all_exprs_from_string(
                Logged(m, [ev |-> "parse"]),
                Files[CHOOSE i \in 1..Len(Files) : Files[i][1] = filename][2])

read_error(m, scope, error_message, character) ==
    FailWith(m, scope, LIST(<<Sym("read-error"), Str(error_message), Num(character)>>))

LoadFn(m, scope, args) ==
    Bind(match_list(m, scope, <<"s">>, args), LAMBDA r :
    With(read_all_exprs_from_file(r.m, r.out[1]), LAMBDA parse_result :
    IF parse_result.is_error
    THEN read_error(parse_result.m, scope, parse_result.error_message, parse_result.end)
    ELSE eval_block(parse_result.m, scope, parse_result.expr)))

\* ----------------------------------------------------------------- printer
\* the quotient and the remainder of the division by 10 of an unsigned
\* number given by its bytes
RECURSIVE div10(_, _, _)
div10(bytes, i, rem) ==
    IF i = 0 THEN [quotient |-> <<>>, rem |-> rem]
    ELSE LET rest == div10(bytes, i - 1, (rem * 256 + bytes[i]) % 10)
         IN [quotient |-> Append(rest.quotient, (rem * 256 + bytes[i]) \div 10),
             rem |-> rest.rem]

Digit(d) == <<"0", "1", "2", "3", "4", "5", "6", "7", "8", "9">>[d + 1]

RECURSIVE unsigned_digits(_)
unsigned_digits(bytes) ==
    LET d == div10(bytes, Len(bytes), 0)
    IN IF \A i \in 1..Len(bytes) : d.quotient[i] = 0
       THEN <<Digit(d.rem)>>
       ELSE Append(unsigned_digits(d.quotient), Digit(d.rem))

\* fprintf(stream, "%ld", num)
print_long(num) ==
    IF Negative(num)
    THEN <<"-">> \o unsigned_digits(long_neg(Extend(num, 2 * LONG_BYTES)))
    ELSE unsigned_digits(num)

\* fprintf(stream, "%f", real) of a real that was read: six digits after
\* the point
print_float(real) ==
    (IF real.sign < 0 THEN <<"-">> ELSE <<>>)
       \o (IF real.whole = <<>> THEN <<"0">> ELSE real.whole) \o <<".">>
       \o [i \in 1..6 |-> IF i <= Len(real.fraction) THEN real.fraction[i] ELSE "0"]

Text(word) ==
    CASE word = "<native>" -> <<"<", "n", "a", "t", "i", "v", "e", ">">>
      [] word = "<lambda " -> <<"<", "l", "a", "m", "b", "d", "a", " ">>

print_atom_as_sexpr(mem, atom) ==
    CASE mem[atom].type = "ATOM_SYMBOL" -> Spell(mem[atom].sym)
      [] mem[atom].type = "ATOM_INTEGER" -> print_long(mem[atom].num)
      [] mem[atom].type = "ATOM_REAL" -> print_float(mem[atom].real)
      [] mem[atom].type = "ATOM_STRING" -> <<"\"">> \o mem[atom].str \o <<"\"">>
      [] mem[atom].type = "ATOM_LAMBDA" ->
            Text("<lambda ") \o Spell(mem[mem[atom].args_list].sym) \o <<">">>
      [] mem[atom].type = "ATOM_NATIVE" -> Text("<native>")

RECURSIVE print_expr_as_sexpr(_, _)
RECURSIVE print_elements(_, _)

\* the loop of print_cons_as_sexpr and what it prints for the last cdr
print_elements(mem, cons) ==
    CASE cons_p(mem, mem[cons].cdr) ->
            <<" ">> \o print_expr_as_sexpr(mem, mem[mem[cons].cdr].car)
               \o print_elements(mem, mem[cons].cdr)
      [] nil_p(mem, mem[cons].cdr) -> <<>>
      [] OTHER -> <<" ", ".", " ">> \o print_expr_as_sexpr(mem, mem[cons].cdr)

print_cons_as_sexpr(mem, head) ==
    <<"(">> \o print_expr_as_sexpr(mem, mem[head].car) \o print_elements(mem, head)
       \o <<")">>

print_expr_as_sexpr(mem, expr) ==
    CASE expr = VOID -> <<>>
      [] cons_p(mem, expr) -> print_cons_as_sexpr(mem, expr)
      [] OTHER -> print_atom_as_sexpr(mem, expr)

\* ------------------------------------------------------------------ forms
\* the value of an Expr as a structure: what print and equal can observe
RECURSIVE Reify(_, _)
Reify(mem, e) ==
    IF e = VOID THEN [type |-> "VOID"]
    ELSE IF cons_p(mem, e) THEN Pair(Reify(mem, mem[e].car), Reify(mem, mem[e].cdr))
    ELSE IF lambda_p(mem, e) THEN [type |-> "ATOM_LAMBDA", id |-> e]
    ELSE mem[e]

S(name) == Sym(name)
Call(s) == LIST(s)
Quote(t) == LIST(<<S("quote"), t>>)
Quasi(t) == LIST(<<S("quasiquote"), t>>)
Unquote(t) == LIST(<<S("unquote"), t>>)
Lam(params, body) == LIST(<<S("lambda"), LIST(params)>> \o body)
Err(name, detail) == Pair(Sym(name), detail)
UnquoteError == Str("Using unquote outside of quasiquote.")

\* argument forms that evaluate to themselves or to a fresh value
ValueForms ==
    <<Num(5), Str("s"), S("t"), Call(<<S("list"), Num(1), Num(2)>>),
      Lam(<<>>, <<Num(1)>>)>>

\* what a ValueForm evaluates to (lambdas compare by identity: see C3)
ValueOf(i) ==
    CASE i = 1 -> Num(5)
      [] i = 2 -> Str("s")
      [] i = 3 -> S("t")
      [] i = 4 -> LIST(<<Num(1), Num(2)>>)

Forms ==
    <<
      <<"set-a-1", Call(<<S("set"), S("a"), Num(1)>>)>>,
      <<"set-a-2", Call(<<S("set"), S("a"), Num(2)>>)>>,
      <<"a", S("a")>>,
      <<"set-nil-5", Call(<<S("set"), S("nil"), Num(5)>>)>>,
      <<"set-t-7", Call(<<S("set"), S("t"), Num(7)>>)>>,
      <<"t", S("t")>>,
      <<"list-1-2", Call(<<S("list"), Num(1), Num(2)>>)>>,
      <<"list-err", Call(<<S("list"), Num(1), S("zzz"), Call(<<S("+"), Num(1), Num(2)>>)>>)>>,
      <<"list-set-err", Call(<<S("list"), Call(<<S("set"), S("t"), Num(7)>>), S("zzz"),
                              Call(<<S("set"), S("nil"), Num(5)>>)>>)>>,
      <<"plus", Call(<<S("+"), Num(2), Num(3)>>)>>,
      <<"id-1", Call(<<Lam(<<S("x")>>, <<S("x")>>), ValueForms[1]>>)>>,
      <<"id-2", Call(<<Lam(<<S("x")>>, <<S("x")>>), ValueForms[2]>>)>>,
      <<"id-3", Call(<<Lam(<<S("x")>>, <<S("x")>>), ValueForms[3]>>)>>,
      <<"id-4", Call(<<Lam(<<S("x")>>, <<S("x")>>), ValueForms[4]>>)>>,
      <<"id-5", Call(<<Lam(<<S("x")>>, <<S("x")>>), ValueForms[5]>>)>>,
      <<"body-order", Call(<<Lam(<<S("x"), S("y")>>, <<S("y"), S("zzz"), S("x")>>),
                            Num(1), Num(2)>>)>>,
      <<"body-last", Call(<<Lam(<<S("x"), S("y")>>, <<S("y"), S("x")>>), Num(1), Num(2)>>)>>,
      <<"empty-body", Call(<<Lam(<<>>, <<>>)>>)>>,
      <<"lexical", Call(<<Lam(<<S("x")>>,
                              <<Call(<<Lam(<<S("f"), S("x")>>, <<Call(<<S("f")>>)>>),
                                       Lam(<<>>, <<S("x")>>), Num(2)>>)>>),
                         Num(1)>>)>>,
      <<"shadow", Call(<<Lam(<<S("t"), S("y")>>,
                             <<Call(<<Lam(<<S("y")>>, <<Call(<<S("list"), S("t"), S("y"), S("nil")>>)>>),
                                      Num(3)>>)>>),
                        Num(1), Num(2)>>)>>,
      <<"arity", Call(<<Lam(<<S("x")>>, <<S("x")>>), Num(1), Num(2)>>)>>,
      <<"quasi", Quasi(LIST(<<Num(1), Unquote(Call(<<S("+"), Num(2), Num(3)>>)), Num(3)>>))>>,
      <<"quasi-plain", Quasi(Num(5))>>,
      <<"quasi-list", Quasi(LIST(<<S("a"), Num(2)>>))>>,
      <<"unquote-1", Unquote(Num(1))>>,
      <<"unquote-zzz", Unquote(S("zzz"))>>,
      <<"defun-g", Call(<<S("defun"), S("g"), LIST(<<>>), S("a")>>)>>,
      <<"call-g", Call(<<S("g")>>)>>,
      <<"quote-a", Quote(S("a"))>>,
      <<"nil-param", Call(<<Lam(<<S("nil")>>, <<Call(<<S("list"), Num(1), Num(2)>>)>>), Num(7)>>)>>,
      <<"begin", Call(<<S("begin"), Num(1), Call(<<S("set"), S("t"), Num(7)>>), S("zzz"), Num(4)>>)>>,
      <<"load-f", Call(<<S("load"), Str("f")>>)>>,
      <<"set-t-id", Call(<<S("set"), S("t"), Call(<<S("lambda"), Call(<<S("x")>>), S("x")>>)>>)>>
    >>

FormNamed(name) == (CHOOSE i \in 1..Len(Forms) : Forms[i][1] = name)

\* ------------------------------------------------------------ the machine
\* m, scope  the collector with its heap, and the top-level scope
\* hist      the names of the forms evaluated so far, "collect" for a collection
\* last      the last form and its result
\* pre       the bindings of the scope before the last step
\* gcst      "run", or what a collection made of the process: "aborted" by the
\*           assertion, or "corrupt" once an object still in use was destroyed
\* line      the forms of the line that eval_line has not reached yet
\* read      the names of the forms of all the lines read so far
\* input     the argument of the function that is applied on its own
\* output    what that function returned
VARIABLES m, scope, hist, last, pre, gcst, line, read, input, output

vars == <<m, scope, hist, last, pre, gcst, line, read, input, output>>

\* a view as the names and the printed values it binds, frame by frame
ShownIn(mem, view) ==
    [f \in 1..Len(view) |->
        [i \in 1..Len(view[f]) |->
            [name |-> view[f][i].name, value |-> Reify(mem, view[f][i].value)]]]

\* main: create_gc, create_scope, load_std_library
Boot ==
    LET s == create_scope(create_gc)
    IN load_std_library(s.m, s.e)

\* the program after main has loaded the library, about to apply a function
\* to one of the inputs
Start(inputs) ==
    /\ m = Boot.m
    /\ scope = Boot.e
    /\ hist = <<>>
    /\ last = [form |-> VOID, is_error |-> FALSE, expr |-> VOID]
    /\ pre = <<>>
    /\ gcst = "run"
    /\ line = <<>>
    /\ read = <<>>
    /\ input \in inputs
    /\ output = [done |-> FALSE]

Init == Start({<<>>})

FormsRun == Len(SelectSeq(hist, LAMBDA n : n # "collect"))

\* the form is built and evaluated in the top-level scope
EvalOf(mm, sc, t) ==
    With(Build([mm EXCEPT !.log = <<>>], t), LAMBDA p :
    With(eval(p.m, sc, p.e), LAMBDA r :
    [m |-> r.m, scope |-> r.scope, form |-> p.e, is_error |-> r.is_error,
     expr |-> r.expr, value |-> Reify(r.m.mem, r.expr)]))

\* one top-level form is read, and eval is called on it in the top-level scope
EvalForm(i) ==
    /\ gcst = "run"
    /\ FormsRun < MaxForms
    /\ \E r \in {EvalOf(m, scope, Forms[i][2])} :
          /\ m' = r.m
          /\ scope' = r.scope
          /\ last' = [form |-> r.form, is_error |-> r.is_error, expr |-> r.expr]
    /\ hist' = Append(hist, Forms[i][1])
    /\ pre' = ShownIn(m.mem, ScopeView(m.mem, scope))
    /\ UNCHANGED <<gcst, line, read, input, output>>

\* what a collection leaves of the process: c is the result of gc_collect
Outcome(mem, root, c) ==
    CASE c.aborted -> "aborted"
      [] root \in c.visited
         /\ \A h \in c.visited : Children(mem, h) \subseteq c.visited -> "run"
      [] OTHER -> "corrupt"

\* gc_collect(gc, scope.expr); the build (with or without assert) and the
\* bit in front of the visited vector are not determined by the program
Collect ==
    /\ gcst = "run"
    /\ Len(hist) - FormsRun < MaxCollections
    /\ \E assert \in BOOLEAN, stray \in BOOLEAN :
          \E c \in {gc_collect(m, scope, assert, stray)} :
             /\ m' = c.m
             /\ gcst' = Outcome(m.mem, scope, c)
    /\ hist' = Append(hist, "collect")
    /\ pre' = ShownIn(m.mem, ScopeView(m.mem, scope))
    /\ UNCHANGED <<scope, last, line, read, input, output>>

Next == \E i \in 1..Len(Forms) : EvalForm(i)

Spec == Init /\ [][Next]_vars

NextGc ==
    \/ \E i \in 1..Len(Forms) : EvalForm(i)
    \/ Collect

SpecGc == Init /\ [][NextGc]_vars

\* -------------------------------------------------------------- arithmetic
\* the operands: long integers around 0, beyond 32 bits and at both ends of
\* the type, and a real

SmallOperands == {Num(0 - 3), Num(0 - 1), Num(0), Num(1), Num(2)}

LongOperands ==
    SmallOperands
       \cup {Long(long_mul(ToLong(65536), ToLong(65536))), Long(LONG_MAX), Long(LONG_MIN)}

RealOperands == {Flt(2)}

ArithInputs ==
    [op : {"+", "*", ">"}, a : LongOperands, b : LongOperands]
       \cup [op : {"+", "*", ">"}, a : SmallOperands \cup RealOperands, b : RealOperands]
       \cup [op : {"+", "*", ">"}, a : RealOperands, b : SmallOperands]

InitArith == Start(ArithInputs)

\* the integer result of the operation does not fit a long int: the
\* behaviour of the signed operation is then undefined
Overflows(in) ==
    /\ in.op \in {"+", "*"}
    /\ in.a.type = "ATOM_INTEGER" /\ in.b.type = "ATOM_INTEGER"
    /\ LET wide == IF in.op = "+"
                   THEN long_add(Extend(in.a.num, 2 * LONG_BYTES), Extend(in.b.num, 2 * LONG_BYTES))
                   ELSE long_mul(Extend(in.a.num, 2 * LONG_BYTES), Extend(in.b.num, 2 * LONG_BYTES))
       IN wide # Extend(SubSeq(wide, 1, LONG_BYTES), 2 * LONG_BYTES)

\* (op a b) is evaluated; where the operation overflows the build either
\* traps (the process is aborted) or leaves the wrapped bytes
ApplyArith ==
    /\ ~output.done
    /\ \E trap \in BOOLEAN,
             r \in {EvalOf(m, scope, Call(<<S(input.op), input.a, input.b>>))} :
             IF trap /\ Overflows(input)
             THEN /\ output' = [done |-> TRUE, aborted |-> TRUE]
                  /\ UNCHANGED <<m, scope, last>>
             ELSE /\ output' = [done |-> TRUE, aborted |-> FALSE,
                                is_error |-> r.is_error, value |-> r.value]
                  /\ m' = r.m
                  /\ scope' = r.scope
                  /\ last' = [form |-> r.form, is_error |-> r.is_error, expr |-> r.expr]
    /\ UNCHANGED <<hist, pre, gcst, line, read, input>>

SpecArith == InitArith /\ [][ApplyArith]_vars

\* ---------------------------------------------------------------- factorial
\* the forms of the factorial program: the definition and calls of it
MaxCalls == 3

FactCalls == <<"fact-0", "fact-1", "fact-2", "fact-3">>

FactForms ==
    <<<<"defun-fact",
        Call(<<S("defun"), S("fact"), LIST(<<S("n")>>),
               Call(<<S("when"), Call(<<S(">"), S("n"), Num(0)>>),
                      Call(<<S("*"), S("n"),
                             Call(<<S("fact"),
                                    Call(<<S("+"), S("n"), Num(0 - 1)>>)>>)>>)>>)>>)>>,
      <<"t", S("t")>>>>
       \o [k \in 1..Len(FactCalls) |-> <<FactCalls[k], Call(<<S("fact"), Num(k - 1)>>)>>]

\* one form of the program is read and evaluated in the top-level scope
EvalFact(i) ==
    /\ gcst = "run"
    /\ Len(hist) < MaxCalls
    /\ \E r \in {EvalOf(m, scope, FactForms[i][2])} :
          /\ m' = r.m
          /\ scope' = r.scope
          /\ last' = [form |-> r.form, is_error |-> r.is_error, expr |-> r.expr]
    /\ hist' = Append(hist, FactForms[i][1])
    /\ pre' = ShownIn(m.mem, ScopeView(m.mem, scope))
    /\ UNCHANGED <<gcst, line, read, input, output>>

NextFact == \E i \in 1..Len(FactForms) : EvalFact(i)

SpecFact == Init /\ [][NextFact]_vars

\* ------------------------------------------------------ reading and printing
\* the longest raw text, and the most expressions of a source
MaxLen == 4

MaxExprs == 2

RECURSIVE Texts(_, _)
Texts(alphabet, n) ==
    IF n = 0 THEN {<<>>}
    ELSE LET shorter == Texts(alphabet, n - 1)
         IN shorter \cup {Append(t, c) : t \in shorter, c \in alphabet}

\* expressions as they are written, each with the value it denotes
Written ==
    {[text |-> <<"a">>, value |-> Sym("a")],
     [text |-> <<"1", "2">>, value |-> Num(12)],
     [text |-> <<"-", "1">>, value |-> Num(0 - 1)],
     [text |-> <<"\"", "b", "\"">>, value |-> Str(<<"b">>)],
     [text |-> <<"(", "a", " ", "b", ")">>, value |-> LIST(<<Sym("a"), Sym("b")>>)],
     [text |-> <<"(", ")">>, value |-> Sym("nil")],
     [text |-> <<"'", "a">>, value |-> LIST(<<Sym("quote"), Sym("a")>>)]}

\* what follows the last expression of a source
Trailers ==
    {<<>>, <<" ">>, <<"\n">>, <<" ", ";", "a">>, <<" ", ";", "a", "\n">>}

RECURSIVE Sources(_)
Sources(k) ==
    IF k = 0 THEN {[text |-> <<>>, values |-> <<>>]}
    ELSE Sources(k - 1)
            \cup {[text |-> (IF s.text = <<>> THEN <<>> ELSE s.text \o <<" ">>) \o w.text,
                   values |-> Append(s.values, w.value)] :
                      s \in Sources(k - 1), w \in Written}

\* the expressions that are read, printed and read back
Digits(n) == print_long(n)

Quotes(chars) == <<"\"">> \o chars \o <<"\"">>

Literals ==
    {<<"0">>, <<"1", "2">>, <<"-", "1">>, Digits(LONG_MAX), Digits(LONG_MIN),
     <<"a">>, <<"n", "i", "l">>, <<"(", ")">>,
     Quotes(<<>>), Quotes(<<"a">>), Quotes(<<"a", " ", "b">>), Quotes(<<"\n">>),
     Quotes(<<"\\", "n">>), Quotes(<<"\\", "r">>), Quotes(<<"\\", "t">>),
     Quotes(<<"\\", "\\">>), Quotes(<<"\\", "\"">>), Quotes(<<"a", "\\", "\"", "b">>),
     <<"(", "a", ")">>, <<"(", "a", " ", "1", "2", ")">>,
     <<"(", "(", "a", ")", " ", "\"", "a", "\"", ")">>,
     <<"(", "n", "i", "l", " ", "b", ")">>, <<"'", "a">>,
     <<"(", "\"", "\\", "\"", "\"", " ", "a", ")">>}

ReaderInputs ==
    {[fn |-> "read_all_exprs_from_string", text |-> s.text \o t, values |-> s.values] :
        s \in Sources(MaxExprs), t \in Trailers}
       \cup {[fn |-> "read_expr_from_string", text |-> t] :
                t \in Texts({"(", ")", "a", " "}, MaxLen)}
       \cup {[fn |-> f, text |-> <<"\"">> \o t] :
                f \in {"read_expr_from_string", "parse_string"},
                t \in Texts({"a", "\"", "\\", "n"}, MaxLen - 1)}
       \cup {[fn |-> "print_expr_as_sexpr", text |-> t] : t \in Literals}

InitReader == Start(ReaderInputs)

\* the function of the input applied in the heap mm.  For the printer the
\* text is read first, its value is printed and the print is read back
Applied(mm, in) ==
    CASE in.fn = "read_all_exprs_from_string" ->
            [r |-> read_all_exprs_from_string(mm, in.text), first |-> VOID, print |-> <<>>]
      [] in.fn = "read_expr_from_string" ->
            [r |-> read_expr_from_string(mm, in.text, 1), first |-> VOID, print |-> <<>>]
      [] in.fn = "parse_string" ->
            [r |-> parse_string_verbatim(mm, in.text, next_token(in.text, 1)),
             first |-> VOID, print |-> <<>>]
      [] in.fn = "print_expr_as_sexpr" ->
            With(read_expr_from_string(mm, in.text, 1), LAMBDA v :
            With([text |-> print_expr_as_sexpr(v.m.mem, v.expr)], LAMBDA p :
            [r |-> IF v.is_error THEN v ELSE read_expr_from_string(v.m, p.text, 1),
             first |-> v.expr, print |-> p.text]))

\* the function is applied to the input.  The assertion of the reader on an
\* empty text is there or not with the build, and a scan that started after
\* the terminator comes back or faults
ApplyReader ==
    /\ ~output.done
    /\ \E assert \in BOOLEAN, fault \in BOOLEAN, a \in {Applied(m, input)} :
             IF (assert /\ input.text = <<>>) \/ (fault /\ a.r.past)
             THEN /\ output' = [done |-> TRUE, aborted |-> TRUE]
                  /\ UNCHANGED m
             ELSE /\ output' = [done |-> TRUE, aborted |-> FALSE,
                                is_error |-> a.r.is_error, expr |-> a.r.expr,
                                error_message |-> a.r.error_message, end |-> a.r.end,
                                value |-> IF a.r.is_error THEN <<>>
                                          ELSE Reify(a.r.m.mem, a.r.expr),
                                first |-> a.first, print |-> a.print]
                  /\ m' = a.r.m
    /\ UNCHANGED <<scope, hist, last, pre, gcst, line, read, input>>

SpecReader == InitReader /\ [][ApplyReader]_vars

\* ---------------------------------------------------------------- programs
\* a text written as its words: a name stands for its spelling, any other
\* word is one character
Word(w) ==
    IF \E i \in 1..Len(Spellings) : Spellings[i][1] = w THEN Spell(w) ELSE <<w>>

RECURSIVE Spelt(_)
Spelt(words) == IF words = <<>> THEN <<>> ELSE Word(Head(words)) \o Spelt(Tail(words))

\* programs that go through every built-in that hands outputs to match_list,
\* and through the list and the quotation forms of the reader
Programs ==
    {Spelt(<<"(", "car", " ", "(", "list", " ", "1", " ", "2", ")", ")">>),
     Spelt(<<"(", "car", " ", "nil", ")">>),
     Spelt(<<"(", "car", ")">>),
     Spelt(<<"(", "list", ")">>),
     Spelt(<<"(", "list", " ", "1", " ", "(", "list", " ", "2", ")", ")">>),
     Spelt(<<"(", "quote", " ", "1", ")">>),
     Spelt(<<"(", "quote", " ", "a", ")">>),
     Spelt(<<"(", "quote", ")">>),
     Spelt(<<"(", "quote", " ", "1", " ", "2", ")">>),
     Spelt(<<"'", "a">>),
     Spelt(<<"'", "(", "a", " ", ".", " ", "b", ")">>),
     Spelt(<<"(", "quasiquote", " ", "1", ")">>),
     Spelt(<<BACKQUOTE, "(", "a", " ", ",", "t", ")">>),
     Spelt(<<"(", "quasiquote", " ", "(", "list", " ", "1", ")", ")">>),
     Spelt(<<"(", "set", " ", "a", " ", "1", ")">>),
     Spelt(<<"(", "set", " ", "t", " ", "1", ")">>),
     Spelt(<<"(", "begin", ")">>),
     Spelt(<<"(", "begin", " ", "1", " ", "2", ")">>),
     Spelt(<<"(", "when", ")">>),
     Spelt(<<"(", "when", " ", "t", ")">>),
     Spelt(<<"(", "when", " ", "t", " ", "1", " ", "2", ")">>),
     Spelt(<<"(", "when", " ", "nil", " ", "1", ")">>),
     Spelt(<<"(", "lambda", ")">>),
     Spelt(<<"(", "lambda", " ", "(", "a", ")", ")">>),
     Spelt(<<"(", "lambda", " ", "(", "a", ")", " ", "a", ")">>),
     Spelt(<<"(", "(", "lambda", " ", "(", "a", ")", ")", " ", "1", ")">>),
     Spelt(<<"(", "(", "lambda", " ", "(", "a", ")", " ", "a", ")", " ", "1", ")">>),
     Spelt(<<"(", "defun", " ", "a", ")">>),
     Spelt(<<"(", "defun", " ", "a", " ", "(", "b", ")", ")">>),
     Spelt(<<"(", "defun", " ", "a", " ", "(", "b", ")", " ", "b", ")">>),
     Spelt(<<"(", "append", ")">>),
     Spelt(<<"(", "append", " ", "(", "list", " ", "1", ")", " ", "(", "list", " ", "2", ")", ")">>),
     Spelt(<<"(", "assoc", " ", "1", " ", "(", "list", " ", "(", "list", " ", "1", " ", "2", ")", ")", ")">>),
     Spelt(<<"(", "assoc", " ", "1", ")">>),
     Spelt(<<"(", "equal", " ", "1", " ", "1", ")">>),
     Spelt(<<"(", "equal", " ", "1", ")">>),
     Spelt(<<"(", "+", " ", "1", " ", "2", ")">>),
     Spelt(<<"(", "a", " ", ".", " ", "b", ")">>),
     Spelt(<<"(", "list", " ", ".", " ", "1", ")">>),
     Spelt(<<"(", "a", " ", ".", ")">>),
     Spelt(<<"(", "a", " ", ".", " ", "b", " ", "a", ")">>),
     Spelt(<<"(", ".", " ", "a", ")">>),
     Spelt(<<"t", " ", "1">>),
     Spelt(<<"1", " ", "(", "list", " ", "1", ")", " ">>),
     Spelt(<<"\"", "a", "\"">>)}
       \cup (Texts({"(", ")", "a", " "}, MaxLen) \ {<<>>})

ProgramInputs == [fn : {"eval_line", "load"}, text : Programs]

InitProgram == Start(ProgramInputs)

\* the cells of the heap with a void car or a void cdr
Unfilled(mem) ==
    {h \in DOMAIN mem : cons_p(mem, h) /\ (mem[h].car = VOID \/ mem[h].cdr = VOID)}

\* the text is read and what was read is evaluated: one expression by eval,
\* as eval_line does, or all of them by eval_block, as load does
ReadAndEval(mm, sc, in) ==
    With(IF in.fn = "eval_line"
         THEN read_expr_from_string([mm EXCEPT !.log = <<>>], in.text, 1)
         ELSE read_all_exprs_from_string([mm EXCEPT !.log = <<>>], in.text), LAMBDA p :
    IF p.is_error
    THEN [parsed |-> FALSE, past |-> p.past, m |-> p.m, scope |-> sc,
          read |-> <<>>, unfilled |-> {}, form |-> VOID, is_error |-> TRUE, expr |-> VOID]
    ELSE With(IF in.fn = "eval_line"
              THEN eval(p.m, sc, p.expr)
              ELSE eval_block(p.m, sc, p.expr), LAMBDA r :
         [parsed |-> TRUE, past |-> p.past, m |-> r.m, scope |-> r.scope,
          read |-> Reify(p.m.mem, p.expr), unfilled |-> Unfilled(p.m.mem),
          form |-> p.expr, is_error |-> r.is_error, expr |-> r.expr]))

\* a store through an Expr taken for an address, or a scan that started after
\* the terminator of the text: the process goes on or faults
Faulty(a) ==
    a.past \/ \E i \in 1..Len(a.m.log) : a.m.log[i].ev = "store"

RunProgram ==
    /\ ~output.done
    /\ \E fault \in BOOLEAN, a \in {ReadAndEval(m, scope, input)} :
             IF fault /\ Faulty(a)
             THEN /\ output' = [done |-> TRUE, aborted |-> TRUE]
                  /\ UNCHANGED <<m, scope, last>>
             ELSE /\ output' = [done |-> TRUE, aborted |-> FALSE,
                                parsed |-> a.parsed, read |-> a.read,
                                unfilled |-> a.unfilled, is_error |-> a.is_error,
                                value |-> IF a.is_error THEN <<>>
                                          ELSE Reify(a.m.mem, a.expr)]
                  /\ m' = a.m
                  /\ scope' = a.scope
                  /\ last' = [form |-> a.form, is_error |-> a.is_error, expr |-> a.expr]
    /\ UNCHANGED <<hist, pre, gcst, line, read, input>>

SpecProgram == InitProgram /\ [][RunProgram]_vars

\* ------------------------------------------------------ the argument matcher
\* the longest list of arguments
MaxArgs == 2

\* an element of each kind: an integer, a real, a string, a symbol, a list
MatchElements == {Num(5), Flt(2), Str("s"), Sym("a"), LIST(<<Num(1)>>)}

Tuples(set, n) == UNION {[1..k -> set] : k \in 0..n}

\* a format over d, f, s, q, e and a list of as many elements, for the
\* match_list of src/src and for the older one of src
MatchInputs ==
    {in \in [variant : {"src/src", "src"},
             format : Tuples({"d", "f", "s", "q", "e"}, MaxArgs),
             elems : Tuples(MatchElements, MaxArgs)] :
        Len(in.elems) = Len(in.format)}

InitMatch == Start(MatchInputs)

\* the list is built and matched against the format
Matched(mm, sc, in) ==
    With(list([mm EXCEPT !.log = <<>>], in.elems), LAMBDA xs :
    With(IF in.variant = "src/src"
         THEN match_list(xs.m, sc, in.format, xs.e)
         ELSE match_list_without_reals(xs.m, sc, in.format, xs.e), LAMBDA r :
    [xs |-> xs.e, r |-> r]))

\* the older match_list after an f stores through the pointer of another
\* output, of another type
Misdirected(in) ==
    in.variant = "src" /\ \E k \in 1..(Len(in.format) - 1) : in.format[k] = "f"

\* match_list is applied; a misdirected store goes through or the run faults
ApplyMatch ==
    /\ ~output.done
    /\ \E fault \in BOOLEAN, a \in {Matched(m, scope, input)} :
             IF fault /\ Misdirected(input)
             THEN /\ output' = [done |-> TRUE, aborted |-> TRUE]
                  /\ UNCHANGED m
             ELSE /\ output' = [done |-> TRUE, aborted |-> FALSE, xs |-> a.xs,
                                is_error |-> a.r.is_error,
                                error |-> IF a.r.is_error
                                          THEN Reify(a.r.m.mem, a.r.expr) ELSE <<>>,
                                out |-> a.r.out]
                  /\ m' = a.r.m
    /\ UNCHANGED <<scope, hist, last, pre, gcst, line, read, input>>

SpecMatch == InitMatch /\ [][ApplyMatch]_vars

\* ------------------------------------------------------------------ append
\* the argument lists of append: at most MaxArgs lists of at most two elements
AppendInputs == Tuples(Tuples({Num(1), Num(2), Sym("a")}, 2), MaxArgs)

InitAppend == Start(AppendInputs)

\* the argument lists joined in their order
RECURSIVE Concatenation(_)
Concatenation(lists) ==
    IF lists = <<>> THEN <<>> ELSE Head(lists) \o Concatenation(Tail(lists))

\* append is called with the list of its evaluated arguments
ApplyAppend ==
    /\ ~output.done
    /\ \E args \in {list([m EXCEPT !.log = <<>>],
                          [k \in 1..Len(input) |-> LIST(input[k])])} :
          \E r \in {AppendFn(args.m, scope, args.e)} :
             /\ output' = [done |-> TRUE, is_error |-> r.is_error,
                           value |-> Reify(r.m.mem, r.expr)]
             /\ m' = r.m
    /\ UNCHANGED <<scope, hist, last, pre, gcst, line, read, input>>

SpecAppend == InitAppend /\ [][ApplyAppend]_vars

\* ------------------------------------------------- the lists of builtins.cpp
MaxFormat == 3

ListFormats == Tuples({"d", "s", "q", "e"}, MaxFormat) \ {<<>>}
ListInputs ==
    {[n \in 1..Len(f) |-> [c |-> f[n],
                           p |-> CASE f[n] = "d" -> 1
                                   [] f[n] = "s" -> "f"
                                   [] f[n] = "q" -> "quote"
                                   [] f[n] = "e" -> Boot.e]] : f \in ListFormats}

InitList == Start(ListInputs)

\* the handles that can be reached from an Expr
RECURSIVE ReachableFrom(_, _, _)
ReachableFrom(mem, todo, seen) ==
    IF todo \subseteq seen THEN seen
    ELSE LET h == CHOOSE x \in todo \ seen : TRUE
         IN ReachableFrom(mem, (todo \ {h}) \cup
                               (IF h = VOID THEN {} ELSE Children(mem, h)),
                          seen \cup {h})

Registered(mm) == {mm.exprs[i] : i \in 1..Len(mm.exprs)}

ApplyList ==
    /\ ~output.done
    /\ \E r \in {list_of_format(m, [n \in 1..Len(input) |-> input[n].c],
                                   [n \in 1..Len(input) |-> input[n].p])} :
          /\ output' = [done |-> TRUE, value |-> r.e]
          /\ m' = r.m
    /\ UNCHANGED <<scope, hist, last, pre, gcst, line, read, input>>

SpecList == InitList /\ [][ApplyList]_vars

\* ----------------------------------------------------------- the mark phase
\* gc_collect up to the call of gc_traverse_expr: the table sorted and
\* defragmented, no slot visited, the root about to be traversed.  The heap
\* is the one that one top-level form leaves.
InitMark ==
    /\ \E i \in 1..Len(Forms) :
          \E r \in {EvalOf(Boot.m, Boot.e, Forms[i][2])} :
             /\ m = [r.m EXCEPT !.exprs = sorted_exprs(@)]
             /\ scope = r.scope
             /\ hist = <<Forms[i][1]>>
             /\ last = [form |-> r.form, is_error |-> r.is_error, expr |-> r.expr]
    /\ pre = <<>>
    /\ gcst = "mark"
    /\ line = <<>>
    /\ read = <<>>
    /\ input \in [assert : BOOLEAN, stray : BOOLEAN]
    /\ output = [calls |-> <<scope>>,
                 st |-> [visited |-> {}, stray |-> input.stray,
                         assert |-> input.assert, aborted |-> FALSE],
                 descended |-> <<>>]

\* what gc_traverse_expr goes on to traverse, in the order of its calls
Descent(mem, root) ==
    CASE cons_p(mem, root) -> <<mem[root].car, mem[root].cdr>>
      [] lambda_p(mem, root) -> <<mem[root].args_list, mem[root].body, mem[root].envir>>
      [] OTHER -> <<>>

\* one call of gc_traverse_expr, up to its first recursive call: calls holds
\* the roots of the calls still to be made, the next one first
Traverse ==
    /\ gcst = "mark"
    /\ output.calls # <<>>
    /\ \E root \in {Head(output.calls)} :
       \E root_index \in {gc_find_expr(m.exprs, root)} :
          CASE (root = VOID \/ root_index < 0) /\ output.st.assert ->
                  /\ gcst' = "aborted"
                  /\ output' = [output EXCEPT !.st.aborted = TRUE]
            [] visited_at(output.st, root_index) ->
                  /\ gcst' = gcst
                  /\ output' = [output EXCEPT !.calls = Tail(@)]
            [] OTHER ->
                  /\ gcst' = gcst
                  /\ output' = [output EXCEPT
                                   !.st = mark_visited(@, root_index),
                                   !.calls = Descent(m.mem, root) \o Tail(@),
                                   !.descended = Append(@, root)]
    /\ UNCHANGED <<m, scope, hist, last, pre, line, read, input>>

\* gc_traverse_expr has returned: the sweep of the slots that were not visited
Sweep ==
    /\ gcst = "mark"
    /\ output.calls = <<>>
    /\ gcst' = "swept"
    /\ m' = [m EXCEPT !.mem = destroy_expr(m.mem, m.exprs, output.st.visited),
                      !.exprs = [i \in 1..Len(m.exprs) |->
                                    IF (i - 1) \in output.st.visited
                                    THEN m.exprs[i] ELSE VOID]]
    /\ UNCHANGED <<scope, hist, last, pre, line, read, input, output>>

NextMark == Traverse \/ Sweep

\* gc_collect is sequential code: its next step is taken
SpecMark == InitMark /\ [][NextMark]_vars /\ WF_vars(NextMark)

\* ------------------------------------------------------------ the tokenizer
\* a text and a position in it, the end of the text included
TokenInputs ==
    {in \in [text : Texts({"a", " ", ";", "\n"}, MaxLen), pos : 1..(MaxLen + 1)] :
        in.pos <= Len(in.text) + 1}

InitToken == Start(TokenInputs)

ApplyToken ==
    /\ ~output.done
    /\ \E t \in {next_token(input.text, input.pos)} :
          output' = [done |-> TRUE, token |-> t]
    /\ UNCHANGED <<m, scope, hist, last, pre, gcst, line, read, input>>

SpecToken == InitToken /\ [][ApplyToken]_vars

\* ----------------------------------------------------------- the heap table
\* the most calls of gc_add_expr: enough for the table to grow
MaxAdds == GC_INITIAL_CAPACITY + 2

\* create_gc: exprs.reserve leaves the vector without elements, visited.resize
\* gives the bitmap its length.  exprs and visited are the lengths of the two
\* vectors, voids the number of slots that the last sweep made void
InitTable ==
    /\ m = create_gc
    /\ scope = VOID
    /\ hist = <<>>
    /\ last = [form |-> VOID, is_error |-> FALSE, expr |-> VOID]
    /\ pre = <<>>
    /\ gcst = "run"
    /\ line = <<>>
    /\ read = <<>>
    /\ input = [adds |-> 0, collections |-> 0]
    /\ output = [size |-> 0, capacity |-> GC_INITIAL_CAPACITY,
                 exprs |-> 0, visited |-> GC_INITIAL_CAPACITY, voids |-> 0,
                 written |-> 0 - 1]

\* the table after the growth step of gc_add_expr, if it is taken
Grown(t) ==
    IF t.size >= t.capacity
    THEN [t EXCEPT !.capacity = 2 * t.capacity, !.exprs = 2 * t.capacity,
                   !.visited = 2 * t.capacity]
    ELSE t

\* gc_add_expr: gc->exprs[gc->size++] = expr.  written is the index of the
\* slot assigned.  An assignment beyond the elements of the vector is
\* undefined: the build stores into the reserved storage, or the run faults
GcAddExpr ==
    /\ gcst = "run"
    /\ input.adds < MaxAdds
    /\ \E fault \in BOOLEAN :
          IF fault /\ Grown(output).size >= Grown(output).exprs
          THEN /\ gcst' = "fault"
               /\ output' = Grown(output)
          ELSE /\ gcst' = gcst
               /\ output' = [Grown(output) EXCEPT !.written = Grown(output).size,
                                                  !.size = @ + 1]
    /\ input' = [input EXCEPT !.adds = @ + 1]
    /\ UNCHANGED <<m, scope, hist, last, pre, line, read>>

\* gc_collect: the void slots are erased (the vector ends at the new end and
\* size is its length), then the sweep makes the slots void that were not
\* visited (none of them, or all).  An erase whose range starts after the
\* end of the vector is undefined: it ends the vector there, or the run faults
GcCollect ==
    /\ gcst = "run"
    /\ input.collections < MaxCollections
    /\ \E fault \in BOOLEAN, all \in BOOLEAN :
          IF fault /\ output.size > output.exprs
          THEN /\ gcst' = "fault"
               /\ output' = output
          ELSE /\ gcst' = gcst
               /\ output' = [output EXCEPT
                                !.size = output.size - output.voids,
                                !.exprs = output.size - output.voids,
                                !.voids = IF all THEN output.size - output.voids ELSE 0]
    /\ input' = [input EXCEPT !.collections = @ + 1]
    /\ UNCHANGED <<m, scope, hist, last, pre, line, read>>

NextTable == GcAddExpr \/ GcCollect

SpecTable == InitTable /\ [][NextTable]_vars

\* ----------------------------------------------------------------- the REPL
\* the forms a line is made of
ReplForms == <<"set-t-7", "t", "a", "plus", "load-f">>

\* the lines: one form, or two forms
Lines ==
    {<<ReplForms[i]>> : i \in 1..Len(ReplForms)}
       \cup {<<ReplForms[i], ReplForms[j]>> : i, j \in 1..Len(ReplForms)}

\* main: eval_line has returned, the next line is read
ReadLine(l) ==
    /\ gcst = "run"
    /\ line = <<>>
    /\ Len(read) + Len(l) <= MaxForms
    /\ line' = l
    /\ read' = read \o l
    /\ UNCHANGED <<m, scope, hist, last, pre, gcst, input, output>>

\* one turn of the loop of eval_line: the collection, then the next form of
\* the line is read and evaluated; an error ends the line.  After a
\* collection that destroyed objects in use the evaluation reads freed
\* memory: it finds the objects as they were (stale), or the process is lost
ReplEval(mm, sc, name, c, o, stale) ==
    CASE o = "aborted" -> [gcst |-> "aborted", ran |-> FALSE, m |-> mm]
      [] o = "corrupt" /\ ~stale -> [gcst |-> "corrupt", ran |-> FALSE, m |-> c.m]
      [] OTHER ->
            With(Build([(IF o = "run" THEN c.m ELSE mm) EXCEPT
                           !.log = Append(c.m.log, [ev |-> "parse"])],
                       Forms[FormNamed(name)][2]), LAMBDA p :
            With(eval(p.m, sc, p.e), LAMBDA r :
            [gcst |-> "run", ran |-> TRUE, m |-> r.m, scope |-> r.scope,
             last |-> [form |-> p.e, is_error |-> r.is_error, expr |-> r.expr]]))

ReplTurn(mm, sc, name, assert, stray, stale) ==
    With(gc_collect([mm EXCEPT !.log = <<>>], sc, assert, stray), LAMBDA c :
    ReplEval(mm, sc, name, c, Outcome(mm.mem, sc, c), stale))

EvalLine ==
    /\ gcst = "run"
    /\ line # <<>>
    /\ \E assert \in BOOLEAN, stray \in BOOLEAN, stale \in BOOLEAN :
          \E s \in {ReplTurn(m, scope, Head(line), assert, stray, stale)} :
             /\ m' = s.m
             /\ gcst' = s.gcst
             /\ scope' = IF s.ran THEN s.scope ELSE scope
             /\ last' = IF s.ran THEN s.last ELSE last
             /\ hist' = IF s.ran THEN Append(hist, Head(line)) ELSE hist
             /\ line' = CASE ~s.ran -> line
                          [] s.last.is_error -> <<>>
                          [] OTHER -> Tail(line)
    /\ pre' = ShownIn(m.mem, ScopeView(m.mem, scope))
    /\ UNCHANGED <<read, input, output>>

NextRepl ==
    \/ \E l \in Lines : ReadLine(l)
    \/ EvalLine

SpecRepl == Init /\ [][NextRepl]_vars

\* ------------------------------------------------------------ observation
\* the value and the outcome of the last form
Result == Reify(m.mem, last.expr)
Ran(names) == hist = names
LastIs(name) == Len(hist) > 0 /\ hist[Len(hist)] = name
Failed(t) == last.is_error /\ Result = t
Returned(t) == ~last.is_error /\ Result = t

Events(kind) == {i \in 1..Len(m.log) : m.log[i].ev = kind}

Min(set) == CHOOSE x \in set : \A y \in set : x <= y

\* the names the specification lists as special forms
SpecialFormNames ==
    {"set", "quote", "begin", "defun", "lambda", "λ", "when", "quasiquote"}

HeadNamed(mem, head, names) == symbol_p(mem, head) /\ mem[head].sym \in names

\* the innermost binding of a name in a view of the scope: the first frame,
\* head to tail, that binds it, and the first such pair of that frame
Binds(frame, name) == {i \in 1..Len(frame) : frame[i].name = name}
BindingFrames(view, name) == {f \in 1..Len(view) : Binds(view[f], name) # {}}
Bound(view, name) == BindingFrames(view, name) # {}
Innermost(view, name) ==
    LET f == Min(BindingFrames(view, name))
    IN view[f][Min(Binds(view[f], name))]

Now == ScopeView(m.mem, scope)

Resolves(name, t) ==
    Bound(Now, name) /\ Reify(m.mem, Innermost(Now, name).value) = t

Shown(view) == ShownIn(m.mem, view)

\* ----------------------------------------------------------------- claims
\* C1: after a collection rooted at the top-level scope the program runs on
\* and every name bound in the scope resolves to the value it had before
C1_BindingsSurviveCollection ==
    LastIs("collect") => gcst = "run" /\ Shown(Now) = pre

\* C11: when a top-level form has ended in an error and the input is used
\* up (the line is finished, or the process is lost), the forms that were
\* read after it have been evaluated too: the forms evaluated are the forms
\* read
C11_FormsAfterErrorRun ==
    (hist # <<>> /\ last.is_error /\ (line = <<>> \/ gcst # "run")) => hist = read

\* the integer a long int stands for, on twice the bytes: sums and products
\* of two long ints are exact there
Wide(l) == Extend(l, 2 * LONG_BYTES)

\* C12: for integers a and b, (+ a b) is the integer a + b, (* a b) the
\* integer a * b, and (> a b) is t exactly when a > b and nil otherwise; with
\* a real operand the result of + and * is a real
C12_IntegerArithmetic ==
    output.done =>
       /\ ~output.aborted
       /\ ~output.is_error
       /\ IF input.a.type = "ATOM_INTEGER" /\ input.b.type = "ATOM_INTEGER"
          THEN CASE input.op = "+" ->
                       /\ output.value.type = "ATOM_INTEGER"
                       /\ Wide(output.value.num) = long_add(Wide(input.a.num), Wide(input.b.num))
                 [] input.op = "*" ->
                       /\ output.value.type = "ATOM_INTEGER"
                       /\ Wide(output.value.num) = long_mul(Wide(input.a.num), Wide(input.b.num))
                 [] input.op = ">" ->
                       output.value
                          = (IF long_less(input.b.num, input.a.num) THEN S("t") ELSE S("nil"))
          ELSE input.op \in {"+", "*"} => output.value.type = "ATOM_REAL"

\* C14: for a source of k >= 0 expressions, whatever follows the last one
\* (nothing, white space, a newline, a comment), read_all_exprs_from_string
\* succeeds with the proper list of the k values in the order of the source.
C14_ReadAllInOrder ==
    (output.done /\ input.fn = "read_all_exprs_from_string")
        => /\ ~output.aborted
           /\ ~output.is_error
           /\ output.value = LIST(input.values)

\* C15: a value that the parser produced from integers, symbols, string
\* literals (escapes included) and lists is printed as a text that parses
\* back to an equal value.
C15_PrintParseRoundTrip ==
    (output.done /\ input.fn = "print_expr_as_sexpr")
        => /\ ~output.aborted
           /\ ~output.is_error
           /\ equal(m.mem, output.first, output.expr)

\* a text that is a string literal without a closing double quote
UnclosedLiteral(text) ==
    /\ text # <<>>
    /\ text[1] = "\""
    /\ \A i \in 2..Len(text) : text[i] \notin {"\"", "\\"}

\* C16: a string literal that is not closed before the end of the input (a
\* single double quote included) is a parse error, Unclosed string, at the
\* position of the literal, with either parse_string; no string atom is made.
C16_UnclosedString ==
    (output.done /\ input.fn \in {"read_expr_from_string", "parse_string"}
                 /\ UnclosedLiteral(input.text))
        => /\ ~output.aborted
           /\ output.is_error
           /\ output.error_message = "Unclosed string"
           /\ output.end = 1

\* the first character of the text that is not a space, NUL if there is none
FirstChar(text) == At(text, skip_whitespace(text, 1))

\* the lists open after the first i characters of a text of parentheses,
\* symbols and spaces
RECURSIVE Depth(_, _)
Depth(text, i) ==
    IF i = 0 THEN 0
    ELSE Depth(text, i - 1)
            + (CASE text[i] = "(" -> 1 [] text[i] = ")" -> 0 - 1 [] OTHER -> 0)

\* the text starts with a ( whose list is still open at the end of the input
NeverClosed(text) ==
    /\ FirstChar(text) = "("
    /\ \A i \in skip_whitespace(text, 1)..Len(text) : Depth(text, i) > 0

Parentheses(text) == \A i \in 1..Len(text) : text[i] \in {"(", ")", "a", " "}

\* C17: a ) where an expression is expected, and a ( whose list is not
\* closed before the end of the input, are parse errors with a position in
\* the text; no value is returned for them, no symbol named ) in particular.
C17_MismatchedParentheses ==
    (output.done /\ input.fn = "read_expr_from_string" /\ Parentheses(input.text)
                 /\ (FirstChar(input.text) = ")" \/ NeverClosed(input.text)))
        => /\ ~output.aborted
           /\ output.is_error
           /\ output.end \in 1..(Len(input.text) + 1)

\* C21: collect is invoked only from top-level control.  In the history of a
\* turn of the REPL no collection comes after the parsing of the form has
\* started: not between its parsing and its evaluation, not during its
\* evaluation, and not while load parses and evaluates the forms of a file.
C21_CollectAtTopLevelOnly ==
    \A i, j \in 1..Len(m.log) :
        (i < j /\ m.log[i].ev \in {"parse", "eval", "atom"}) => m.log[j].ev # "collect"

\* a turn that collected, then read (load "f") and evaluated it: the file was
\* parsed and its forms were evaluated
C21_Witness ==
    /\ LastIs("load-f") /\ ~last.is_error
    /\ Events("collect") = {1}
    /\ Cardinality(Events("parse")) = 2
    /\ \E i \in Events("parse") : \E j \in Events("eval") : i > 2 /\ j > i

\* C22: registration.  Every Atom and Cons that can be reached from a value
\* returned by list (the wrappers of quote, quasiquote and unquote, the error
\* values) is in the heap table when the value is returned.
C22_Registration ==
    output.done =>
        \A h \in ReachableFrom(m.mem, {output.value}, {}) \ {VOID} :
            h \in Registered(m)

\* C23: when gc_collect(root) returns, exactly the registered objects that
\* could be reached from root (through car and cdr, and through args_list,
\* body and envir) are still in the table with their payload; every other
\* registered object is destroyed and its slot is void.
C23_SweepExact ==
    [][(hist' = Append(hist, "collect") /\ gcst' # "aborted") =>
          \A h \in Registered(m) \ {VOID} :
              (h \in ReachableFrom(m.mem, {scope}, {}))
                  <=> (m'.mem[h].type # "EXPR_VOID" /\ h \in Registered(m'))]_vars

\* C24: during gc_collect the lookup gc_find_expr returns, for every handle
\* that gc_add_expr registered and that no sweep has taken, the index of the
\* slot that holds it in the sorted table.
C24_RegisteredAreFound ==
    [][hist' = Append(hist, "collect") =>
          \A i \in 1..Len(sorted_exprs(m.exprs)) :
              gc_find_expr(sorted_exprs(m.exprs), sorted_exprs(m.exprs)[i]) = i - 1]_vars

\* the cons cell that create_scope allocated
GlobalFrame == create_scope(create_gc).e

\* the last frame cell of a chain of frames
RECURSIVE LastFrame(_, _)
LastFrame(mem, chain) ==
    IF cons_p(mem, chain) /\ cons_p(mem, mem[chain].cdr)
    THEN LastFrame(mem, mem[chain].cdr)
    ELSE chain

LambdasOf(mem) == {h \in 1..Len(mem) : lambda_p(mem, h)}

\* the names bound in a frame
RECURSIVE BoundIn(_, _)
BoundIn(mem, frame) ==
    IF cons_p(mem, frame)
    THEN {mem[mem[mem[frame].car].car].sym} \cup BoundIn(mem, mem[frame].cdr)
    ELSE {}

\* C25: in every reachable state the global frame is the cons cell that
\* create_scope allocated: the top-level scope is that cell, its cdr is nil,
\* and the environment of every lambda ends in it.
C25_GlobalFrameIdentity ==
    /\ scope = GlobalFrame
    /\ cons_p(m.mem, GlobalFrame) /\ nil_p(m.mem, m.mem[GlobalFrame].cdr)
    /\ \A h \in LambdasOf(m.mem) : LastFrame(m.mem, m.mem[h].envir) = GlobalFrame

\* a set form and a form that made a closure inside a call have run: the
\* closure's environment has a frame of its own on top of the global frame,
\* which holds every binding that load_std_library spliced into it
C25_Witness ==
    /\ \E i \in 1..Len(hist) : hist[i] = "set-t-7"
    /\ \E h \in LambdasOf(m.mem) :
          /\ m.mem[h].envir # GlobalFrame
          /\ LastFrame(m.mem, m.mem[h].envir) = GlobalFrame
    /\ BoundIn(m.mem, m.mem[GlobalFrame].car) = {StdLibrary[i][1] : i \in 1..Len(StdLibrary)}

\* an object that can be reached from itself
Cyclic(mem, root) ==
    \E h \in ReachableFrom(mem, {root}, {}) \ {VOID} :
        h \in ReachableFrom(mem, {x \in 1..Len(mem) : \E k \in 1..Len(Descent(mem, h)) :
                                                        Descent(mem, h)[k] = x}, {})

RECURSIVE OnlyBlank(_, _, _)
OnlyBlank(text, i, comment) ==
    CASE i > Len(text) -> TRUE
      [] comment -> OnlyBlank(text, i + 1, text[i] # "\n")
      [] text[i] = ";" -> OnlyBlank(text, i + 1, TRUE)
      [] text[i] \in {" ", "\n"} -> OnlyBlank(text, i + 1, FALSE)
      [] OTHER -> FALSE

\* C27: when only whitespace and comments remain from the given position,
\* next_token returns the empty token at the end of the input, also when the
\* input ends inside a comment; no token extends past the end of the input.
C27_EmptyTokenAtEnd ==
    output.done =>
        /\ output.token.end <= Len(input.text) + 1
        /\ OnlyBlank(input.text, input.pos, FALSE) =>
               /\ output.token.begin = Len(input.text) + 1
               /\ output.token.end = output.token.begin

\* C28: the bounds of the heap table.  In every state after create_gc and
\* any calls of gc_add_expr and gc_collect, size is at most capacity, at most
\* the length of the slot table and at most the length of the visited
\* bitmap, and the slot that gc_add_expr assigned lies within the table.
C28_TableBounds ==
    /\ output.size <= output.capacity
    /\ output.size <= output.exprs
    /\ output.size <= output.visited
    /\ output.written < output.exprs

\* a value, as a structure, that is void or has void inside
RECURSIVE HasVoid(_)
HasVoid(t) ==
    CASE t.type = "VOID" -> TRUE
      [] t.type = "PAIR" -> HasVoid(t.car) \/ HasVoid(t.cdr)
      [] OTHER -> FALSE

\* every match_list that succeeded stored into each output of its caller
Overwritten ==
    \A i \in Events("match") :
        ~m.log[i].is_error =>
            /\ Len(m.log[i].out) = Len(m.log[i].format)
            /\ \A k \in 1..Len(m.log[i].format) :
                  m.log[i].format[k] \in {"e", "*"} => m.log[i].out[k] # VOID

RECURSIVE Nth(_, _, _)
Nth(mem, xs, k) == IF k = 1 THEN mem[xs].car ELSE Nth(mem, mem[xs].cdr, k - 1)

\* x has the kind the format character c requires, and what c stores of it
HasKind(mem, c, x) ==
    CASE c = "d" -> integer_p(mem, x)
      [] c = "f" -> real_p(mem, x)
      [] c = "s" -> string_p(mem, x)
      [] c = "q" -> symbol_p(mem, x)
      [] c = "e" -> TRUE

Payload(mem, c, x) ==
    CASE c = "d" -> mem[x].num
      [] c = "f" -> mem[x].real
      [] c = "s" -> mem[x].str
      [] c = "q" -> mem[x].sym
      [] c = "e" -> x

KindsMatch ==
    \A k \in 1..Len(input.format) :
        HasKind(m.mem, input.format[k], Nth(m.mem, output.xs, k))

\* C19: the argument matcher.  For a proper list of n elements and a format
\* of n characters over d, f, s, q, e, match_list succeeds if and only if
\* every element has the kind of its format character; on a mismatch the
\* result is a wrong-argument-type error; on success every output holds the
\* payload of its element.
C19_ArgumentMatcher ==
    output.done /\ ~output.aborted =>
        /\ ~output.is_error <=> KindsMatch
        /\ output.is_error =>
              output.error.type = "PAIR" /\ output.error.car = Sym("wrong-argument-type")
        /\ ~output.is_error =>
              /\ Len(output.out) = Len(input.format)
              /\ \A k \in 1..Len(input.format) :
                    output.out[k] = Payload(m.mem, input.format[k],
                                            Nth(m.mem, output.xs, k))

\* C20: (append l1 ... ln) returns the list of the elements of l1, then of
\* l2, and so on to ln, each in the order of its list; (append) returns nil.
C20_Append ==
    output.done =>
        ~output.is_error /\ output.value = LIST(Concatenation(input))

RECURSIVE Factorial(_)
Factorial(n) == IF n = 0 THEN 1 ELSE n * Factorial(n - 1)

FactDefined == \E j \in 1..(Len(hist) - 1) : hist[j] = "defun-fact"

\* C13: once fact is defined with defun, when, > and *, the call (fact n)
\* returns the integer n! for n >= 1 and nil for n = 0.
C13_Factorial ==
    \A k \in 1..Len(FactCalls) :
        (FactDefined /\ LastIs(FactCalls[k]))
            => Returned(IF k = 1 THEN Sym("nil") ELSE Num(Factorial(k - 1)))

\* C5: is_special(name) is true exactly for set, quote, begin, defun, lambda,
\* λ, when and quasiquote: every call the evaluator dispatches treats its head
\* as special iff the head is one of these symbols, a call with such a head
\* hands its argument forms to the callable unevaluated, and any other call
\* hands over freshly evaluated arguments
C5_SpecialIffListed ==
    /\ \A i \in Events("dispatch") :
          m.log[i].special <=> HeadNamed(m.mem, m.log[i].head, SpecialFormNames)
    /\ \A i \in Events("call") :
          (m.log[i].args = m.log[i].forms)
             <=> HeadNamed(m.mem, m.log[i].head, SpecialFormNames)

\* C2: after (set a 1) then (set a 2) the name a evaluates to 2, and a
\* function defined with defun reads a global name at call time: after
\* (defun g () a) the name g is bound to a closure, and a set of a that
\* follows is what the global name a resolves to from then on
C2_EnvironmentLaw ==
    /\ Ran(<<"set-a-1", "set-a-2">>) => Resolves("a", Num(2))
    /\ Ran(<<"set-a-2", "a">>) => Returned(Num(2))
    /\ Ran(<<"defun-g", "set-a-2">>) =>
          /\ Resolves("a", Num(2))
          /\ Bound(Now, "g")
          /\ lambda_p(m.mem, Innermost(Now, "g").value)

\* the elements of a list, as the Exprs in its cars
RECURSIVE Elements(_, _)
Elements(mem, l) ==
    IF cons_p(mem, l) THEN <<mem[l].car>> \o Elements(mem, mem[l].cdr) ELSE <<>>

IdForms == <<"id-1", "id-2", "id-3", "id-4">>

\* the value that the argument form of id-k has when the form is read
IdValue(k) ==
    IF ValueForms[k] = S("t") THEN Innermost(pre, "t").value ELSE ValueOf(k)

\* C3: a lambda called with matching arity runs in one fresh frame, binding
\* each parameter to its argument, pushed onto the environment the lambda
\* captured; it returns the value of its last body expression, nil for an
\* empty body, and ((lambda (x) x) v) returns a value equal to v
C3_LambdaApplication ==
    /\ \A i \in Events("apply") :
          LET e == m.log[i]
              params == Elements(m.mem, m.mem[e.lambda].args_list)
              args == Elements(m.mem, e.args)
              frame == FrameView(m.mem, m.mem[e.scope].car)
              n == Len(params)
          IN /\ m.mem[e.scope].cdr = m.mem[e.lambda].envir
             /\ Len(frame) = n /\ Len(args) = n
             /\ \A j \in 1..n :
                   /\ frame[n + 1 - j].name = m.mem[params[j]].sym
                   /\ frame[n + 1 - j].value = args[j]
    /\ \A k \in 1..Len(IdForms) : LastIs(IdForms[k]) => Returned(IdValue(k))
    /\ LastIs("id-5") => ~last.is_error /\ lambda_p(m.mem, last.expr)
    /\ LastIs("body-last") => Returned(Num(1))
    /\ LastIs("empty-body") => Returned(S("nil"))
    /\ LastIs("lexical") => Returned(Num(1))

\* the places in the history where the evaluation of expr starts
Starts(expr) == {i \in Events("eval") : m.log[i].expr = expr}
Fails(expr) == {i \in Events("failed") : m.log[i].expr = expr}

\* C4: the argument forms of a call whose head is not a special-form name are
\* evaluated left to right, none is evaluated after one that failed, and the
\* callee receives a proper list with one value for each argument form
C4_ArgumentsEvaluated ==
    /\ \A i \in Events("dispatch") :
          ~HeadNamed(m.mem, m.log[i].head, SpecialFormNames) =>
             LET forms == Elements(m.mem, m.log[i].forms)
             IN \A j, k \in 1..Len(forms) :
                   j < k =>
                      /\ \A p \in Starts(forms[j]), q \in Starts(forms[k]) : p < q
                      /\ Starts(forms[k]) # {} => Starts(forms[j]) # {}
                      /\ Fails(forms[j]) # {} => Starts(forms[k]) = {}
    /\ \A i \in Events("call") :
          ~HeadNamed(m.mem, m.log[i].head, SpecialFormNames) =>
             /\ list_p(m.mem, m.log[i].args)
             /\ Len(Elements(m.mem, m.log[i].args))
                   = Len(Elements(m.mem, m.log[i].forms))

\* C6: a symbol evaluates to the value of its innermost binding, and to the
\* error (void-variable . sym) exactly when no frame of the scope binds it;
\* any other atom evaluates to itself
C6_SymbolEvaluation ==
    \A i \in Events("atom") :
       LET e == m.log[i]
       IN IF symbol_p(m.mem, e.expr)
          THEN LET view == ScopeView(e.mem, e.scope)
                   name == m.mem[e.expr].sym
               IN /\ e.is_error <=> ~Bound(view, name)
                  /\ e.is_error =>
                        Reify(m.mem, e.result) = Err("void-variable", S(name))
                  /\ ~e.is_error => e.result = Innermost(view, name).value
          ELSE ~e.is_error /\ e.result = e.expr

\* a symbol bound in two frames was looked up
C6_Witness ==
    \E i \in Events("atom") :
       /\ symbol_p(m.mem, m.log[i].expr)
       /\ ~m.log[i].is_error
       /\ Cardinality(BindingFrames(ScopeView(m.log[i].mem, m.log[i].scope),
                                    m.mem[m.log[i].expr].sym)) >= 2

\* the set forms: name of the form, the symbol, the value
SetForms ==
    <<<<"set-a-1", "a", 1>>, <<"set-a-2", "a", 2>>,
      <<"set-nil-5", "nil", 5>>, <<"set-t-7", "t", 7>>>>

AfterSet(view, sym, v) ==
    IF Bound(view, sym)
    THEN LET f == Min(BindingFrames(view, sym))
         IN [view EXCEPT ![f][Min(Binds(view[f], sym))].value = Num(v)]
    ELSE [view EXCEPT ![Len(view)] = <<[name |-> sym, value |-> Num(v)]>> \o @]

\* C7: (set sym v) returns v; it changes the value of the innermost binding
\* of sym if there is one, and otherwise adds one binding to the global
\* frame; every other binding and the frames are as before
C7_SetFrameEffect ==
    \A k \in 1..Len(SetForms) :
       LastIs(SetForms[k][1]) =>
          /\ Returned(Num(SetForms[k][3]))
          /\ Shown(Now) = AfterSet(pre, SetForms[k][2], SetForms[k][3])

\* C8: (quasiquote x) returns x with every (unquote e) replaced by the value
\* of e: `(1 ,(+ 2 3) 3) is (1 5 3), and without unquote it is (quote x)
C8_Quasiquote ==
    /\ LastIs("quasi") => Returned(LIST(<<Num(1), Num(5), Num(3)>>))
    /\ LastIs("quasi-plain") => Returned(Num(5))
    /\ LastIs("quasi-list") => Returned(LIST(<<S("a"), Num(2)>>))

UnquoteForms == {"unquote-1", "unquote-zzz"}

FailedAtoms == {i \in Events("atom") : m.log[i].is_error}

ErrorPoints ==
    {i \in 1..Len(m.log) :
        \/ m.log[i].ev = "failed"
        \/ m.log[i].ev = "atom" /\ m.log[i].is_error}

ErrorAt(i) == IF m.log[i].ev = "failed" THEN m.log[i].error ELSE m.log[i].result

\* the sets of the last form in the top-level scope that no later one overrides
FinalSets ==
    {i \in Events("set") :
        /\ m.log[i].scope = scope
        /\ \A j \in Events("set") :
              j > i => m.log[j].scope # scope \/ m.log[j].name # m.log[i].name}

\* C10: once a sub-evaluation of a form returns an error nothing more is
\* evaluated, every enclosing evaluation returns that same error, and the
\* bindings that a set of the same form installed before it are still there
C10_ErrorsUnwind ==
    /\ last.is_error <=> ErrorPoints # {}
    /\ ErrorPoints # {} =>
          /\ \A j \in (Min(ErrorPoints) + 1)..Len(m.log) :
                \/ m.log[j].ev = "failed" /\ m.log[j].error = ErrorAt(Min(ErrorPoints))
                \/ m.log[j].ev = "return" /\ m.log[j].is_error
          /\ last.expr = ErrorAt(Min(ErrorPoints))
    /\ \A i \in FinalSets :
          /\ Bound(Now, m.log[i].name)
          /\ Innermost(Now, m.log[i].name).value = m.log[i].value

\* a form failed after one of its sets had completed
C10_Witness ==
    /\ last.is_error
    /\ FinalSets # {}
    /\ LastIs("list-set-err")
    /\ Resolves("t", Num(7))


\* the calls of a lambda whose argument forms are not as many as its parameters
Mismatched ==
    {i \in Events("call") :
        /\ lambda_p(m.mem, m.log[i].callee)
        /\ Len(Elements(m.mem, m.log[i].forms))
              # Len(Elements(m.mem, m.mem[m.log[i].callee].args_list))}

\* C29: a lambda called with k arguments, k not the number of its parameters,
\* returns the error (wrong-integer-of-arguments . k); after the call no
\* frame is pushed, no body expression is evaluated and no binding is set.
C29_ArityMismatch ==
    \A i \in Mismatched :
        /\ Failed(Pair(Sym("wrong-integer-of-arguments"),
                       Num(Len(Elements(m.mem, m.log[i].forms)))))
        /\ \A j \in (i + 1)..Len(m.log) : m.log[j].ev \notin {"apply", "eval", "set"}


\* the apply event that a return event answers: the last one before it that
\* pushed the same frame
ApplyOf(i) == CHOOSE j \in Events("apply") : j < i /\ m.log[j].scope = m.log[i].pushed

\* C30: a lambda call leaves the caller's scope chain as it was.  When
\* call_lambda returns, with a value or with an error, the caller's Scope
\* has the frames it had before the call, in the same order, and the frame
\* of the callee's parameters is not among them.
C30_CallerScopeKept ==
    \A i \in Events("return") :
        /\ m.log[i].scope = m.log[i].caller
        /\ m.log[i].frames = m.log[ApplyOf(i)].frames
        /\ \A k \in 1..Len(m.log[i].frames) : m.log[i].frames[k] # m.log[i].pushed

\* a call has returned a value to a caller that is itself inside a call: the
\* caller's Scope has a frame of its own on top of the global frame
C30_Witness ==
    /\ \E i \in Events("return") : ~m.log[i].is_error /\ Len(m.log[i].frames) > 1
    /\ scope = GlobalFrame

====
